---- MODULE Spec2Model ----
(***************************************************************************)
(* A model of the safe-virtio-drivers split virtqueue engine               *)
(* (virtio-drivers/src/queue.rs), of the MMIO transport                    *)
(* (virtio-drivers/src/transport/mmio.rs) and of the drivers' use of them. *)
(*                                                                         *)
(* The device is the environment: it completes published chains in any     *)
(* order by writing {id, len} to used.ring[used.idx mod SIZE] and then     *)
(* incrementing used.idx, and it may set or clear the NO_NOTIFY flag.      *)
(***************************************************************************)
EXTENDS Naturals, Integers, Sequences, FiniteSets, TLC

VARIABLES
    \* ---- VirtIoQueue (queue.rs:13-23) and the three views of its page
    avail_desc_index,   \* VecDeque<u16>: the free descriptor indices
    last_seen_used,     \* u16
    poped_used,         \* BTreeSet<u16>: popped used-ring positions
    descriptor_table,   \* [0..SIZE-1 -> Descriptor]
    avail_ring,         \* AvailRing: flags, idx, ring, used_event
    used_ring,          \* UsedRing: flags, idx, ring of {id, len}, avail_event
    \* ---- the device side of the queue and the history of the calls
    live,               \* chains published and not yet reclaimed
    held,               \* tokens add returned that no pop_used has given back
    adds_done,          \* number of chains published by the explored calls
    last_call,          \* the last call made on the queue and what it returned
    \* ---- add_notify_wait_pop (queue.rs:77-92) as a sequence of steps
    w_pc, w_class, w_token, w_chain,
    \* ---- the MMIO window: the device's registers and the accesses made
    regs, io_log,
    \* ---- MmioTransport::new and VirtIoQueue::new
    t_pc, transport, new_size, new_queue_idx, new_ret,
    \* ---- a device driver: the position of its current call, its fields and
    \* what its last call returned
    d_pc, drv, d_ret

qvars == <<avail_desc_index, last_seen_used, poped_used, descriptor_table,
           avail_ring, used_ring>>
gvars == <<live, held, adds_done, last_call>>
wvars == <<w_pc, w_class, w_token, w_chain>>
mvars == <<regs, io_log>>
nvars == <<t_pc, transport, new_size, new_queue_idx, new_ret>>
dvars == <<d_pc, drv, d_ret>>
vars == <<qvars, gvars, wvars, mvars, nvars, dvars>>

-----------------------------------------------------------------------------
(* Program constants *)

\* the queue capacities, const SIZE, the drivers instantiate the engine with
CONSOLE_QUEUE_SIZE == 2    \* console/mod.rs:16
GPU_QUEUE_SIZE == 2        \* gpu/mod.rs:14
BLK_QUEUE_SIZE == 16       \* block/mod.rs:18
NET_QUEUE_SIZE == 16       \* qemu/src/main.rs:44
INPUT_QUEUE_SIZE == 32     \* input/mod.rs:18
\* u16 indices wrap at 2^16
U16 == 65536
PAGE_SIZE == 4096
MAGIC == 1953655158        \* 0x74726976
LEGACY_VERSION == 1
MODERN_VERSION == 2

\* DescFlag (queue.rs:292-298)
EMPTY == 0
NEXT == 1
WRITE == 2

\* used.flags bit 0: the device asks for no notification
NO_NOTIFY == 1

\* DeviceStatus (transport/mod.rs:5-28)
ACKNOWLEDGE == 1
DRIVER == 2
DRIVER_OK == 4
FEATURES_OK == 8

\* feature bits, by position: BlkFeature::FLUSH, RING_EVENT_IDX, VERSION_1,
\* and the net device's MAC and STATUS
FLUSH == 9
\* BlkRespStatus (block/ty.rs:98-107)
OK == 0
IO_ERR == 1
UNSUPPORTED == 2
NOT_READY == 3
RING_EVENT_IDX == 29
VERSION_1 == 32
NET_MAC == 5
NET_HDR_SIZE == 10         \* net/ty.rs:11, size_of::<VirtioNetHdr>()
MIN_BUFFER_LEN == 1526     \* net/ty.rs:10
NET_STATUS == 16

\* size_of::<Descriptor>(): repr(C, align(16)) of u64, u32, u16, u16
SIZE_OF_DESCRIPTOR == 16

(* Bounds of the exploration *)
MaxAdds == 3          \* chains published by the explored calls
MaxLen == 2           \* the device reports a len in 1..MaxLen
MaxCalls == 2         \* add_notify_wait_pop calls made one after the other
WrapStart == 65534    \* explored calls start at avail.idx 0 or WrapStart
MaxSpins == 2         \* turns of a wait loop that find the device not ready
MaxReqs == 6          \* block requests made one after the other
MaxEvents == 3        \* input events the device reports
MaxSlot == 1          \* the device uses the event slots 0..MaxSlot and the last

-----------------------------------------------------------------------------
(* Helpers: u16 arithmetic and bit tests *)

wrapping_add(a, b) == (a + b) % U16
wrapping_sub(a, b) == (a - b + U16) % U16
HasFlag(flags, bit) == (flags \div bit) % 2 = 1

\* const SIZE of a queue: the number of slots of its table and of its rings
SIZE_of(slots) == Cardinality(DOMAIN slots)

Range(s) == {s[i] : i \in 1..Len(s)}
NoDup(s) == \A i, j \in 1..Len(s) : i # j => s[i] # s[j]

\* Descriptor::new (queue.rs:283-290): next is 0 until add links the chain
Descriptor_new(addr, len, flags) ==
    [addr |-> addr, len |-> len, flags |-> flags, next |-> 0]

\* Descriptor::default (queue.rs:272-281), a zeroed slot
Descriptor_default == [addr |-> 0, len |-> 0, flags |-> 0, next |-> 0]

-----------------------------------------------------------------------------
(* The chains the drivers build *)

\* console send (console/mod.rs:147-155): one device-readable byte
ConsoleSendChain == << Descriptor_new(1, 1, EMPTY) >>
\* console receive (console/mod.rs:72-76): one device-writable page
ConsoleRecvChain == << Descriptor_new(1, PAGE_SIZE, WRITE) >>
\* GPU control request (gpu/mod.rs:154-169): request, then response
GpuRequestChain == << Descriptor_new(1, 24, NEXT), Descriptor_new(2, 24, WRITE) >>
\* GPU cursor request (gpu/mod.rs:172-181): one descriptor flagged NEXT
GpuCursorChain == << Descriptor_new(1, 56, NEXT) >>
\* block read (block/mod.rs:82-100): header, data, status
BlkReadChain == << Descriptor_new(1, 16, NEXT),
                   Descriptor_new(2, 512, NEXT + WRITE),
                   Descriptor_new(3, 1, WRITE) >>

\* block write (block/mod.rs:118-136): header, data, status
BlkWriteChain == << Descriptor_new(1, 16, NEXT),
                    Descriptor_new(2, 512, NEXT),
                    Descriptor_new(3, 1, WRITE) >>
\* block request without data (block/mod.rs:158-171): header, status
BlkRequestChain == << Descriptor_new(1, 16, NEXT), Descriptor_new(3, 1, WRITE) >>

\* the chains whose NEXT flags match their length, as add's callers pass them
Chains == {ConsoleSendChain, GpuRequestChain, BlkReadChain}

-----------------------------------------------------------------------------
(* The virtqueue engine. Its operations are operators over a queue record  *)
(* q whose fields are the fields of VirtIoQueue and the views of its page. *)

Q == [avail_desc_index |-> avail_desc_index, last_seen_used |-> last_seen_used,
      poped_used |-> poped_used, descriptor_table |-> descriptor_table,
      avail_ring |-> avail_ring, used_ring |-> used_ring]

\* const SIZE of the queue the state holds
SIZE == SIZE_of(descriptor_table)

\* what a call returns: Ok(val), or an error kind with val 0
Ok(v) == [tag |-> "Ok", val |-> v]
Err(kind) == [tag |-> kind, val |-> 0]

\* should_notify (queue.rs:98-108)
should_notify(q) == ~HasFlag(q.used_ring.flags, NO_NOTIFY)

\* the scan loop of can_pop (queue.rs:151-156)
RECURSIVE can_pop_scan(_, _, _, _)
can_pop_scan(q, current_index, remaining, id) ==
    IF remaining = 0 THEN FALSE
    ELSE IF q.used_ring.ring[current_index % SIZE_of(q.used_ring.ring)].id = id THEN TRUE
    ELSE can_pop_scan(q, wrapping_add(current_index, 1), remaining - 1, id)

\* a can_pop that compares the indices without wrapping
can_pop_nowrap(q, id) ==
    IF q.last_seen_used >= q.used_ring.idx THEN FALSE
    ELSE can_pop_scan(q, q.last_seen_used,
                      q.used_ring.idx - q.last_seen_used, id)

\* a can_pop that scans the whole ring, whatever was read
can_pop_whole_ring(q, id) ==
    \E i \in DOMAIN q.used_ring.ring : q.used_ring.ring[i].id = id

\* can_pop (queue.rs:143-158)
can_pop(q, id) ==
    IF q.last_seen_used = q.used_ring.idx THEN FALSE
    ELSE can_pop_scan(q, q.last_seen_used,
                      wrapping_sub(q.used_ring.idx, q.last_seen_used), id)

\* a peek that returns the newest unread used element
peek_used_newest(q) ==
    IF q.last_seen_used = q.used_ring.idx THEN -1
    ELSE q.used_ring.ring[wrapping_sub(q.used_ring.idx, 1)
                              % SIZE_of(q.used_ring.ring)].id

\* peek_used (queue.rs:161-168): -1 stands for None
peek_used(q) ==
    IF q.last_seen_used = q.used_ring.idx THEN -1
    ELSE q.used_ring.ring[q.last_seen_used % SIZE_of(q.used_ring.ring)].id

\* an AvailRing::push that stores the head and leaves idx alone
AvailRing_push_noinc(ring, id) ==
    [ring EXCEPT !.ring[ring.idx % SIZE_of(ring.ring)] = id]

\* AvailRing::push (queue.rs:310-316)
AvailRing_push(ring, id) ==
    [ring EXCEPT !.ring[ring.idx % SIZE_of(ring.ring)] = id,
                 !.idx = wrapping_add(ring.idx, 1)]

\* the loop of add (queue.rs:128-135): the chain is written from its last
\* descriptor to its first, each slot taken from the front of the free list;
\* last is -1 for None
RECURSIVE add_write(_, _, _, _)
add_write(data, free, table, last) ==
    IF Len(data) = 0 THEN [free |-> free, table |-> table, last |-> last]
    ELSE LET d0 == data[Len(data)]
             id == Head(free)
             d == IF last # -1 THEN [d0 EXCEPT !.next = last] ELSE d0
         IN add_write(SubSeq(data, 1, Len(data) - 1), Tail(free),
                      [table EXCEPT ![id % SIZE_of(table)] = d], id)

\* an add that only checks that some descriptor is free and publishes the
\* part of the chain it found room for
add_partial(q, data) ==
    IF Len(q.avail_desc_index) = 0 THEN [q |-> q, ret |-> Err("QueueFull")]
    ELSE LET n == IF Len(data) <= Len(q.avail_desc_index) THEN Len(data)
                  ELSE Len(q.avail_desc_index)
             w == add_write(SubSeq(data, 1, n), q.avail_desc_index,
                            q.descriptor_table, -1)
         IN [q |-> [q EXCEPT !.avail_desc_index = w.free,
                             !.descriptor_table = w.table,
                             !.avail_ring = AvailRing_push(q.avail_ring, w.last)],
             ret |-> IF n = Len(data) THEN Ok(w.last) ELSE Err("QueueFull")]

\* add (queue.rs:120-141); data is not empty (assert_ne, queue.rs:121)
add(q, data) ==
    IF Len(q.avail_desc_index) < Len(data) THEN [q |-> q, ret |-> Err("QueueFull")]
    ELSE LET w == add_write(data, q.avail_desc_index, q.descriptor_table, -1)
         IN [q |-> [q EXCEPT !.avail_desc_index = w.free,
                             !.descriptor_table = w.table,
                             !.avail_ring = AvailRing_push(q.avail_ring, w.last)],
             ret |-> Ok(w.last)]

\* the search for the used-ring position of id (queue.rs:205-214)
RECURSIVE find_header(_, _, _, _)
find_header(q, tmp_index, remaining, id) ==
    IF remaining = 0 THEN wrapping_sub(q.last_seen_used, 1)
    ELSE IF q.used_ring.ring[tmp_index % SIZE_of(q.used_ring.ring)].id = id THEN tmp_index
    ELSE find_header(q, wrapping_add(tmp_index, 1), remaining - 1, id)

\* the chain walk of pop_used (queue.rs:219-226): every index it pushes to the
\* free list. desc[now] is indexed without "% SIZE", so an index >= SIZE
\* panics; a walk that has pushed more than SIZE indices has come back to a
\* descriptor flagged NEXT and never ends.
RECURSIVE chain_walk(_, _, _)
chain_walk(table, now, acc) ==
    IF now >= SIZE_of(table) THEN [status |-> "panic", idxs |-> acc]
    ELSE IF ~HasFlag(table[now].flags, NEXT) THEN [status |-> "ok", idxs |-> acc]
    ELSE IF Len(acc) > SIZE_of(table) THEN [status |-> "loop", idxs |-> acc]
    ELSE LET nx == table[now % SIZE_of(table)].next
         IN chain_walk(table, nx, Append(acc, nx))

\* an update of last_seen_used that passes one popped position and stops
advance_one(lsu, poped) ==
    IF lsu \in poped
    THEN [last_seen_used |-> wrapping_add(lsu, 1), poped_used |-> poped \ {lsu}]
    ELSE [last_seen_used |-> lsu, poped_used |-> poped]

\* the update of last_seen_used (queue.rs:228-235)
RECURSIVE advance(_, _)
advance(lsu, poped) ==
    IF lsu \in poped THEN advance(wrapping_add(lsu, 1), poped \ {lsu})
    ELSE [last_seen_used |-> lsu, poped_used |-> poped]

\* a pop that reads the used element and gives no descriptor back
pop_used_leaks(q, id) ==
    IF ~can_pop(q, id) THEN [q |-> q, ret |-> Err("NotReady"), header |-> -1]
    ELSE LET skip == wrapping_sub(q.used_ring.idx, q.last_seen_used)
             header == find_header(q, q.last_seen_used, skip, id)
             a == advance(q.last_seen_used, q.poped_used \cup {header})
         IN [q |-> [q EXCEPT !.last_seen_used = a.last_seen_used,
                             !.poped_used = a.poped_used],
             ret |-> Ok(q.used_ring.ring[header % SIZE_of(q.used_ring.ring)].len),
             header |-> header]

\* pop_used (queue.rs:197-237). A walk that never ends, or that panics,
\* returns nothing: the tag says so and the queue is left as it was found.
pop_used(q, id) ==
    IF ~can_pop(q, id) THEN [q |-> q, ret |-> Err("NotReady"), header |-> -1]
    ELSE LET skip == wrapping_sub(q.used_ring.idx, q.last_seen_used)
             header == find_header(q, q.last_seen_used, skip, id)
             len == q.used_ring.ring[header % SIZE_of(q.used_ring.ring)].len
             walk == chain_walk(q.descriptor_table, id, <<id>>)
             a == advance(q.last_seen_used, q.poped_used \cup {header})
         IN IF walk.status # "ok"
            THEN [q |-> q, ret |-> Err(walk.status), header |-> header]
            ELSE [q |-> [q EXCEPT
                     !.avail_desc_index = q.avail_desc_index \o walk.idxs,
                     !.last_seen_used = a.last_seen_used,
                     !.poped_used = a.poped_used,
                     !.avail_ring.used_event =
                         IF a.last_seen_used # q.last_seen_used
                         THEN a.last_seen_used ELSE @],
                  ret |-> Ok(len), header |-> header]

\* the device completes a chain whose head is head, reporting len: it writes
\* the used element and then increments used.idx
device_use(q, head, len) ==
    [q EXCEPT !.used_ring.ring[q.used_ring.idx % SIZE_of(q.used_ring.ring)] =
                  [id |-> head, len |-> len],
              !.used_ring.idx = wrapping_add(q.used_ring.idx, 1)]

\* the queue VirtIoQueue::new builds (queue.rs:53-63) on a page holding
\* avail and used (the typed views reinterpret the page, my_impl.rs:103-145)
VirtIoQueue_of(n, table, avail, used) ==
    [avail_desc_index |-> [i \in 1..n |-> i - 1],
     last_seen_used |-> 0,
     poped_used |-> {},
     descriptor_table |-> table,
     avail_ring |-> avail,
     used_ring |-> used]

\* a zeroed queue page of n slots
ZeroAvail(n) == [flags |-> 0, idx |-> 0, ring |-> [i \in 0..(n - 1) |-> 0],
                 used_event |-> 0]
ZeroUsed(n) == [flags |-> 0, idx |-> 0,
                ring |-> [i \in 0..(n - 1) |-> [id |-> 0, len |-> 0]],
                avail_event |-> 0]
ZeroTable(n) == [i \in 0..(n - 1) |-> Descriptor_default]

-----------------------------------------------------------------------------
(* The MMIO transport (transport/mmio.rs). An io record is the register    *)
(* window: the device's registers and the log of the accesses made.        *)

\* the queue indices of the device
QueueIdxs == {0, 1}

\* the registers the device banks by queue_sel
Banked == {"queue_num_max", "queue_num", "queue_align", "queue_pfn",
           "queue_ready", "queue_desc_low", "queue_desc_high",
           "queue_driver_low", "queue_driver_high",
           "queue_device_low", "queue_device_high"}

\* the register file of a device (VirtIOHeader, mmio.rs:16-156)
DeviceRegs(magic, version, device_id, num_max, inuse) ==
    [magic |-> magic, version |-> version, device_id |-> device_id,
     queue_sel |-> 0,
     queue_num_max |-> [i \in QueueIdxs |-> num_max],
     queue_num |-> [i \in QueueIdxs |-> 0],
     queue_align |-> [i \in QueueIdxs |-> 0],
     queue_pfn |-> inuse,
     queue_ready |-> inuse,
     queue_desc_low |-> [i \in QueueIdxs |-> 0],
     queue_desc_high |-> [i \in QueueIdxs |-> 0],
     queue_driver_low |-> [i \in QueueIdxs |-> 0],
     queue_driver_high |-> [i \in QueueIdxs |-> 0],
     queue_device_low |-> [i \in QueueIdxs |-> 0],
     queue_device_high |-> [i \in QueueIdxs |-> 0],
     queue_notify |-> 0,
     status |-> 0,
     \* the feature words, as sets of bit positions 0..31, selected by the
     \* two sel registers; guest_page_size is legacy_guest_page_size (0x028)
     device_features |-> [w \in {0, 1} |-> {}],
     device_features_sel |-> 0,
     driver_features |-> [w \in {0, 1} |-> {}],
     driver_features_sel |-> 0,
     guest_page_size |-> 0,
     \* not registers: the feature bits (0..63) the device insists on; whether
     \* the device takes a queue out of use some time after the driver wrote 0
     \* to queue_ready, and the queues it has still to take out of use
     required |-> {},
     lazy |-> FALSE,
     pending |-> {}]

\* the feature bits (0..63) the driver has written so far
driver_written(r) ==
    r.driver_features[0] \cup {b + 32 : b \in r.driver_features[1]}

\* what the device keeps of a status write: it drops FEATURES_OK when the
\* driver did not accept a feature the device insists on
device_status(r, val) ==
    IF HasFlag(val, FEATURES_OK) /\ ~(r.required \subseteq driver_written(r))
    THEN val - FEATURES_OK
    ELSE val

read_reg(r, reg) ==
    IF reg \in Banked THEN r[reg][r.queue_sel]
    ELSE IF reg = "device_features" THEN r[reg][r.device_features_sel]
    ELSE r[reg]
write_reg(r, reg, val) ==
    IF reg = "queue_ready" /\ val = 0 /\ r.lazy /\ r.queue_ready[r.queue_sel] # 0
    THEN [r EXCEPT !.pending = @ \cup {r.queue_sel}]
    ELSE IF reg \in Banked THEN [r EXCEPT ![reg][r.queue_sel] = val]
    ELSE IF reg = "driver_features"
    THEN [r EXCEPT ![reg][r.driver_features_sel] = val]
    ELSE IF reg = "status" THEN [r EXCEPT ![reg] = device_status(r, val)]
    ELSE [r EXCEPT ![reg] = val]

\* ReadVolatile::read of a u32 register (volatile.rs:42-48)
read(io, reg) ==
    [regs |-> io.regs,
     log |-> Append(io.log, [op |-> "read", reg |-> reg,
                             val |-> read_reg(io.regs, reg)])]

\* WriteVolatile::write of a u32 register (volatile.rs:71-77)
write(io, reg, val) ==
    [regs |-> write_reg(io.regs, reg, val),
     log |-> Append(io.log, [op |-> "write", reg |-> reg, val |-> val])]

\* a write of a u64 register that writes the high word first
write_u64_high_first(io, reg_low, reg_high, data) ==
    LET high == (data \div U16) \div U16
        low == data - high * U16 * U16
    IN write(write(io, reg_high, high), reg_low, low)

\* WriteVolatile::write of a u64 register (volatile.rs:63-70): the low word
\* at OFFSET, then the high word at OFFSET + 4
write_u64(io, reg_low, reg_high, data) ==
    LET high == (data \div U16) \div U16      \* data >> 32
        low == data - high * U16 * U16        \* data as u32
    IN write(write(io, reg_low, low), reg_high, high)

\* MmioVersion::try_from (mmio.rs:206-218)
MmioVersion_try_from(version) ==
    IF version = LEGACY_VERSION THEN Ok(LEGACY_VERSION)
    ELSE IF version = MODERN_VERSION THEN Ok(MODERN_VERSION)
    ELSE [tag |-> "UnsupportedVersion", val |-> version]

\* a constructor that looks at the version before the device id
MmioTransport_new_version_first(io) ==
    LET io1 == read(io, "magic")
        magic == read_reg(io.regs, "magic")
    IN IF magic # MAGIC THEN [ret |-> [tag |-> "BadMagic", val |-> magic], io |-> io1]
       ELSE LET io2 == read(io1, "version")
                v == MmioVersion_try_from(read_reg(io1.regs, "version"))
            IN IF v.tag # "Ok" THEN [ret |-> v, io |-> io2]
               ELSE IF read_reg(io2.regs, "device_id") = 0
                    THEN [ret |-> Err("ZeroDeviceId"), io |-> read(io2, "device_id")]
                    ELSE [ret |-> v, io |-> read(io2, "device_id")]

\* MmioTransport::new (mmio.rs:240-257): Ok(version), or the error
MmioTransport_new(io) ==
    LET io1 == read(io, "magic")
        magic == read_reg(io.regs, "magic")
    IN IF magic # MAGIC THEN [ret |-> [tag |-> "BadMagic", val |-> magic], io |-> io1]
       ELSE LET io2 == read(io1, "device_id")
                device_id == read_reg(io1.regs, "device_id")
            IN IF device_id = 0 THEN [ret |-> Err("ZeroDeviceId"), io |-> io2]
               ELSE [ret |-> MmioVersion_try_from(read_reg(io2.regs, "version")),
                     io |-> read(io2, "version")]

\* what virtio_probe does with the result (new_test.rs:70-80)
virtio_probe(ret) ==
    IF ret.tag = "ZeroDeviceId" THEN "skipped"
    ELSE IF ret.tag = "Ok" THEN "device"
    ELSE "warned"

\* max_queue_size (mmio.rs:296-299)
max_queue_size(io, queue) ==
    LET io1 == write(io, "queue_sel", queue)
    IN [ret |-> read_reg(io1.regs, "queue_num_max"), io |-> read(io1, "queue_num_max")]

\* notify (mmio.rs:301-305)
notify(io, queue) == write(io, "queue_notify", queue)

\* queue_used (mmio.rs:424-430)
queue_used(version, io, queue) ==
    LET io1 == write(io, "queue_sel", queue)
        reg == IF version = LEGACY_VERSION THEN "queue_pfn" ELSE "queue_ready"
    IN [ret |-> read_reg(io1.regs, reg) # 0, io |-> read(io1, reg)]

\* a rounding that leaves every size as it is
no_align(size) == size

\* align_up (lib.rs:23-25): (size + PAGE_SIZE) & !(PAGE_SIZE - 1)
align_up(size) == ((size + PAGE_SIZE) \div PAGE_SIZE) * PAGE_SIZE

\* queue_set (mmio.rs:331-395) in a build with (debug_assertions) or without
\* debug assertions; a failed assertion panics before any write. The two
\* assert_eq! are in every build, the debug_assert_eq! on the page number
\* (mmio.rs:354) only in a build with debug assertions
queue_set_in(debug_assertions, version, io, queue, size, descriptors, driver_area, device_area) ==
    IF version = LEGACY_VERSION
    THEN IF \/ driver_area - descriptors # SIZE_OF_DESCRIPTOR * size
            \/ device_area - descriptors #
                   align_up(SIZE_OF_DESCRIPTOR * size + 2 * (size + 3))
            \/ /\ debug_assertions
               /\ (descriptors \div PAGE_SIZE) * PAGE_SIZE # descriptors
         THEN [ret |-> Err("panic"), io |-> io]
         ELSE [ret |-> Ok(0),
               io |-> write(write(write(write(io, "queue_sel", queue),
                                              "queue_num", size),
                                        "queue_align", PAGE_SIZE),
                                  "queue_pfn", descriptors \div PAGE_SIZE)]
    ELSE [ret |-> Ok(0),
          io |-> write(write_u64(write_u64(write_u64(
                     write(write(io, "queue_sel", queue), "queue_num", size),
                     "queue_desc_low", "queue_desc_high", descriptors),
                     "queue_driver_low", "queue_driver_high", driver_area),
                     "queue_device_low", "queue_device_high", device_area),
                     "queue_ready", 1)]

\* queue_set as VirtIoQueue::new calls it: the descriptors are at the start
\* of a page of H::dma_alloc, where both builds do the same
queue_set(version, io, queue, size, descriptors, driver_area, device_area) ==
    queue_set_in(TRUE, version, io, queue, size, descriptors, driver_area,
                 device_area)

\* queue_unset (mmio.rs:397-422) up to its loop: the whole of it on a legacy
\* transport, the write of 0 to queue_ready on a modern one
queue_unset_begin(version, io, queue) ==
    IF version = LEGACY_VERSION
    THEN [done |-> TRUE,
          io |-> write(write(write(write(io, "queue_sel", queue),
                                   "queue_num", 0),
                             "queue_align", 0),
                       "queue_pfn", 0)]
    ELSE [done |-> FALSE,
          io |-> write(write(io, "queue_sel", queue), "queue_ready", 0)]

\* the four clearing writes of the modern queue_unset (mmio.rs:410-419)
queue_unset_clear(io) ==
    write_u64(write_u64(write_u64(write(io, "queue_num", 0),
                                  "queue_desc_low", "queue_desc_high", 0),
                        "queue_driver_low", "queue_driver_high", 0),
              "queue_device_low", "queue_device_high", 0)

\* a loop that goes on to the clearing writes whatever it read back
queue_unset_no_wait(io) ==
    [done |-> TRUE, io |-> queue_unset_clear(read(io, "queue_ready"))]

\* one turn of the loop of the modern queue_unset (mmio.rs:409) and, when
\* the loop ends, the rest of the function
queue_unset_wait(io) ==
    IF read_reg(io.regs, "queue_ready") # 0
    THEN [done |-> FALSE, io |-> read(io, "queue_ready")]
    ELSE [done |-> TRUE, io |-> queue_unset_clear(read(io, "queue_ready"))]

\* a drop that leaves the device as it is
MmioTransport_drop_nothing(io) == io

\* Drop for MmioTransport (mmio.rs:446-452)
MmioTransport_drop(io) == write(io, "status", 0)

-----------------------------------------------------------------------------
(* VirtIoQueue::new *)

RECURSIVE is_power_of_two(_)
is_power_of_two(n) ==
    IF n <= 1 THEN n = 1
    ELSE n % 2 = 0 /\ is_power_of_two(n \div 2)

\* size_of::<AvailRing<SIZE>>(): flags, idx, ring, used_event (queue.rs:299-308)
size_of_AvailRing(n) == 2 + 2 + 2 * n + 2

\* the layout of the queue page (queue.rs:26-29)
AVAIL_RING_OFFSET(n) == SIZE_OF_DESCRIPTOR * n
USED_RING_OFFSET(n) == align_up(SIZE_OF_DESCRIPTOR * n + size_of_AvailRing(n))

\* size_of::<UsedRing<SIZE>>(): flags, idx, ring of 8-byte elements,
\* avail_event, padded to the alignment of 4 (queue.rs:318-333)
size_of_UsedRing(n) == ((2 + 2 + 8 * n + 2 + 3) \div 4) * 4

\* pages (lib.rs:19-21)
pages(size) == (size + PAGE_SIZE - 1) \div PAGE_SIZE

\* total_size (queue.rs:66-69)
total_size(n) ==
    align_up(SIZE_OF_DESCRIPTOR * n + size_of_AvailRing(n))
    + align_up(size_of_UsedRing(n))

\* the typed views of a page over n slots: the page's bytes as they are. page
\* tells what the bytes hold where the rings' flags and idx fields lie.
queue_ref_mut(page, n) ==
    [descriptor_table |-> ZeroTable(n),
     avail_ring |-> [ZeroAvail(n) EXCEPT !.flags = page.avail_flags,
                                         !.idx = page.avail_idx],
     used_ring |-> [ZeroUsed(n) EXCEPT !.idx = page.used_idx]]

\* no queue: what the state holds before new, or when new fails
NoQueue == VirtIoQueue_of(0, <<>>, ZeroAvail(0), ZeroUsed(0))

\* a new that learns the device's maximum queue size only after it has
\* programmed the queue
VirtIoQueue_new_late_check(version, io, queue_idx, n, page) ==
    LET u == queue_used(version, io, queue_idx)
    IN IF u.ret THEN [ret |-> Err("AlreadyUsed"), io |-> u.io, q |-> NoQueue]
       ELSE IF ~is_power_of_two(n) \/ n > U16 - 1
       THEN [ret |-> Err("InvalidParam"), io |-> u.io, q |-> NoQueue]
       ELSE LET s == queue_set(version, u.io, queue_idx, n, page.paddr,
                               page.paddr + AVAIL_RING_OFFSET(n),
                               page.paddr + USED_RING_OFFSET(n))
                m == max_queue_size(s.io, queue_idx)
                v == queue_ref_mut(page, n)
            IN IF m.ret < n
               THEN [ret |-> Err("InvalidParam"), io |-> m.io, q |-> NoQueue]
               ELSE [ret |-> Ok(0), io |-> m.io,
                     q |-> VirtIoQueue_of(n, v.descriptor_table, v.avail_ring,
                                          v.used_ring)]

\* VirtIoQueue::new (queue.rs:31-64); page is what H::dma_alloc returns
VirtIoQueue_new(version, io, queue_idx, n, page) ==
    LET u == queue_used(version, io, queue_idx)
    IN IF u.ret THEN [ret |-> Err("AlreadyUsed"), io |-> u.io, q |-> NoQueue]
       ELSE IF ~is_power_of_two(n) \/ n > U16 - 1
       THEN [ret |-> Err("InvalidParam"), io |-> u.io, q |-> NoQueue]
       ELSE LET m == max_queue_size(u.io, queue_idx)
            IN IF m.ret < n
               THEN [ret |-> Err("InvalidParam"), io |-> m.io, q |-> NoQueue]
               ELSE LET s == queue_set(version, m.io, queue_idx, n, page.paddr,
                                       page.paddr + AVAIL_RING_OFFSET(n),
                                       page.paddr + USED_RING_OFFSET(n))
                        v == queue_ref_mut(page, n)
                    IN IF s.ret.tag # "Ok"
                       THEN [ret |-> s.ret, io |-> s.io, q |-> NoQueue]
                       ELSE [ret |-> Ok(0), io |-> s.io,
                             q |-> VirtIoQueue_of(n, v.descriptor_table,
                                                  v.avail_ring, v.used_ring)]

-----------------------------------------------------------------------------
(* The initialisation handshake and the drivers' constructors *)

\* let v be the value and go on with K: every step below names its result
\* once and uses it as often as it needs
Bind(v, K(_)) == K(v)

\* the bits of a u8 status value
StatusBits == {1, 2, 4, 8, 16, 32, 64, 128}
RECURSIVE SumBits(_)
SumBits(S) == IF S = {} THEN 0 ELSE LET b == CHOOSE x \in S : TRUE
                                    IN b + SumBits(S \ {b})
\* a | b
BitOr(a, b) == SumBits({x \in StatusBits : HasFlag(a, x) \/ HasFlag(b, x)})

\* a u64 of feature bits, as the set of its bit positions: x as u32, x >> 32
\* and (x as u64) << 32
as_u32(x) == {b \in x : b < 32}
shr32(x) == {b - 32 : b \in {c \in x : c >= 32}}
shl32(x) == {b + 32 : b \in {c \in x : c < 32}}

\* read_device_features (mmio.rs:277-283)
read_device_features(io) ==
    Bind(write(io, "device_features_sel", 0), LAMBDA io1 :
    Bind(write(read(io1, "device_features"), "device_features_sel", 1),
         LAMBDA io2 :
    [ret |-> read_reg(io1.regs, "device_features")
                 \cup shl32(read_reg(io2.regs, "device_features")),
     io |-> read(io2, "device_features")]))

\* write_driver_features (mmio.rs:285-294)
write_driver_features(io, driver_features) ==
    write(write(write(write(io, "driver_features_sel", 0),
                      "driver_features", as_u32(driver_features)),
                "driver_features_sel", 1),
          "driver_features", shr32(driver_features))

\* DeviceStatus::from_bits_truncate: the bits transport/mod.rs:5-28 names
from_bits_truncate(v) ==
    SumBits({x \in {1, 2, 4, 8, 64, 128} : HasFlag(v, x)})

\* get_status (mmio.rs:307-311), set_status (mmio.rs:313-315)
get_status(io) ==
    [ret |-> from_bits_truncate(read_reg(io.regs, "status")),
     io |-> read(io, "status")]
set_status(io, status) == write(io, "status", status)

\* set_guest_page_size (mmio.rs:317-325)
set_guest_page_size(version, io, guest_page_size) ==
    IF version = LEGACY_VERSION THEN write(io, "guest_page_size", guest_page_size)
    ELSE io

\* Transport::begin_init(supported_features): the seven steps of the
\* transport's handshake, made of the register operations above
begin_init(version, io, supported_features) ==
    Bind(read_device_features(
             set_status(set_status(set_status(io, 0), ACKNOWLEDGE),
                        BitOr(ACKNOWLEDGE, DRIVER))), LAMBDA f :
    Bind(f.ret \cap supported_features, LAMBDA negotiated :
    Bind(get_status(set_status(write_driver_features(f.io, negotiated),
                               BitOr(BitOr(ACKNOWLEDGE, DRIVER), FEATURES_OK))),
         LAMBDA g :
    IF ~HasFlag(g.ret, FEATURES_OK)
    THEN [ret |-> Err("InvalidParam"), io |-> g.io, features |-> {}]
    ELSE [ret |-> Ok(0), features |-> negotiated,
          io |-> set_guest_page_size(version, g.io, PAGE_SIZE)])))

\* Transport::finish_init(): status |= DRIVER_OK; write
finish_init(io) ==
    set_status(io, BitOr(BitOr(BitOr(ACKNOWLEDGE, DRIVER), FEATURES_OK), DRIVER_OK))

\* general_init from its reset on (src/lib.rs:395-421): stat is written
\* after ACKNOWLEDGE and DRIVER were both or-ed into it
general_init_negotiate(io3, version, driver_feat) ==
    Bind(BitOr(BitOr(0, ACKNOWLEDGE), DRIVER), LAMBDA stat1 :
    Bind(write(write(io3, "status", 0), "status", stat1), LAMBDA io5 :
    Bind(read_reg(io5.regs, "device_features") \cap as_u32(driver_feat),
         LAMBDA ack_feat :
    Bind(write(write(read(io5, "device_features"), "driver_features", ack_feat),
               "status", BitOr(stat1, FEATURES_OK)), LAMBDA io8 :
    Bind(read(io8, "status"), LAMBDA io9 :
    IF BitOr(stat1, FEATURES_OK) # read_reg(io8.regs, "status")
    THEN [ret |-> Err("Err"), io |-> io9]
    ELSE IF version = 1
    THEN [ret |-> Ok(0), io |-> write(io9, "guest_page_size", PAGE_SIZE)]
    ELSE [ret |-> Ok(0), io |-> io9])))))

\* VirtIOHeader::general_init (src/lib.rs:384-422), the handshake of the
\* block driver; it returns Err(()) on every failure
general_init(io, driver_feat) ==
    Bind(read(io, "magic"), LAMBDA io1 :
    IF read_reg(io.regs, "magic") # MAGIC THEN [ret |-> Err("Err"), io |-> io1]
    ELSE
    Bind(read(io1, "version"), LAMBDA io2 :
    Bind(read_reg(io1.regs, "version"), LAMBDA version :
    IF version # 1 /\ version # 2 THEN [ret |-> Err("Err"), io |-> io2]
    ELSE
    Bind(read(io2, "device_id"), LAMBDA io3 :
    IF read_reg(io2.regs, "device_id") = 0 THEN [ret |-> Err("Err"), io |-> io3]
    ELSE general_init_negotiate(io3, version, driver_feat)))))

\* VirtIOHeader::general_init_end (src/lib.rs:423-430)
general_init_end(io) ==
    write(io, "status",
          BitOr(BitOr(BitOr(ACKNOWLEDGE, DRIVER), FEATURES_OK), DRIVER_OK))

\* the drivers and what each is built with: SUPPORTED_FEATURES and QUEUE_SIZE
Drivers == {"console", "gpu", "input", "net", "blk"}
SUPPORTED_FEATURES(kind) ==
    CASE kind = "console" -> {}
      [] kind = "gpu" -> {RING_EVENT_IDX}
      [] kind = "input" -> {RING_EVENT_IDX}
      [] kind = "net" -> {NET_MAC, NET_STATUS}
      [] kind = "blk" -> {FLUSH}
QUEUE_SIZE(kind) ==
    CASE kind = "console" -> CONSOLE_QUEUE_SIZE
      [] kind = "gpu" -> GPU_QUEUE_SIZE
      [] kind = "input" -> INPUT_QUEUE_SIZE
      [] kind = "net" -> NET_QUEUE_SIZE
      [] kind = "blk" -> BLK_QUEUE_SIZE

\* the k-th page of H::dma_alloc, holding zeroes
dma_alloc(k) == [paddr |-> (8 + 2 * k) * PAGE_SIZE, avail_flags |-> 0,
                 avail_idx |-> 0, used_idx |-> 0]

\* what a constructor returns: the result, the register window, the features
\* the driver keeps and its two queues
Built(ret, io, features, q0, q1) ==
    [ret |-> ret, io |-> io, features |-> features, q0 |-> q0, q1 |-> q1]

\* the event buffer of slot i (input/mod.rs:43-47)
EventDescriptor(i) == Descriptor_new(256 + 8 * i, 8, WRITE)

\* the loop of VirtIOInput::new that posts every event slot
\* (input/mod.rs:40-49)
RECURSIVE post_events(_, _)
post_events(q, i) ==
    IF i = SIZE_of(q.descriptor_table) THEN [q |-> q, ret |-> Ok(0)]
    ELSE Bind(add(q, << EventDescriptor(i) >>), LAMBDA a :
         IF a.ret.tag # "Ok" THEN a
         ELSE IF a.ret.val # i THEN [q |-> a.q, ret |-> Err("panic")]
         ELSE post_events(a.q, i + 1))

\* the two VirtIoQueue::new calls every transport driver makes, queue 0 first
two_queues(version, io, n) ==
    Bind(VirtIoQueue_new(version, io, 0, n, dma_alloc(0)), LAMBDA a :
    IF a.ret.tag # "Ok" THEN Built(a.ret, a.io, {}, NoQueue, NoQueue)
    ELSE
    Bind(VirtIoQueue_new(version, a.io, 1, n, dma_alloc(1)), LAMBDA b :
    IF b.ret.tag # "Ok" THEN Built(b.ret, b.io, {}, NoQueue, NoQueue)
    ELSE Built(Ok(0), b.io, {}, a.q, b.q)))

\* a constructor from the result b of begin_init on: the error returned, or
\* the two queues and finish_init (console/mod.rs:34-48, gpu/mod.rs:41-65)
new_after_begin_init(version, b, n) ==
    IF b.ret.tag # "Ok" THEN Built(b.ret, b.io, {}, NoQueue, NoQueue)
    ELSE Bind(two_queues(version, b.io, n), LAMBDA q :
         IF q.ret.tag # "Ok" THEN q
         ELSE Built(Ok(0), finish_init(q.io), b.features, q.q0, q.q1))

\* VirtIOConsole::new (console/mod.rs:33-49)
VirtIOConsole_new(version, io) ==
    new_after_begin_init(version,
        begin_init(version, io, SUPPORTED_FEATURES("console")),
        CONSOLE_QUEUE_SIZE)

\* VirtIOGpu::new (gpu/mod.rs:40-65)
VirtIOGpu_new(version, io) ==
    new_after_begin_init(version,
        begin_init(version, io, SUPPORTED_FEATURES("gpu")), GPU_QUEUE_SIZE)

\* VirtIOInput::new (input/mod.rs:34-62)
VirtIOInput_new(version, io) ==
    Bind(begin_init(version, io, SUPPORTED_FEATURES("input")), LAMBDA b :
    IF b.ret.tag # "Ok" THEN Built(b.ret, b.io, {}, NoQueue, NoQueue)
    ELSE
    Bind(two_queues(version, b.io, INPUT_QUEUE_SIZE), LAMBDA q :
    IF q.ret.tag # "Ok" THEN q
    ELSE
    Bind(post_events(q.q0, 0), LAMBDA p :
    IF p.ret.tag # "Ok" THEN Built(p.ret, q.io, {}, NoQueue, NoQueue)
    ELSE Built(Ok(0),
               finish_init(IF should_notify(p.q) THEN notify(q.io, 0) ELSE q.io),
               b.features, p.q, q.q1))))

\* VirtIONetRaw::new (net/dev_raw.rs:31-55): the results of begin_init and of
\* finish_init are not looked at
VirtIONetRaw_new(version, io) ==
    Bind(begin_init(version, io, SUPPORTED_FEATURES("net")), LAMBDA b :
    Bind(two_queues(version, b.io, NET_QUEUE_SIZE), LAMBDA q :
    IF q.ret.tag # "Ok" THEN q
    ELSE Built(Ok(0), finish_init(q.io), b.features, q.q0, q.q1)))

\* VirtIOBlk::new from the queue on (block/mod.rs:39-73): the legacy queue
\* registers written in place, general_init_end; todo!() on a modern device
VirtIOBlk_new_queue(io, page) ==
    Bind(read(io, "version"), LAMBDA io1 :
    IF read_reg(io.regs, "version") # 1
    THEN Built(Err("panic"), io1, {}, NoQueue, NoQueue)
    ELSE IF (page.paddr \div PAGE_SIZE) * PAGE_SIZE # page.paddr
    THEN Built(Err("panic"), io1, {}, NoQueue, NoQueue)
    ELSE
    Bind(write(io1, "queue_sel", 0), LAMBDA io2 :
    Bind(read(io2, "queue_num_max"), LAMBDA io3 :
    IF read_reg(io2.regs, "queue_num_max") < BLK_QUEUE_SIZE
    THEN Built(Err("InvalidParam"), io3, {}, NoQueue, NoQueue)
    ELSE Built(Ok(0),
               general_init_end(
                   write(write(write(io3, "queue_num", BLK_QUEUE_SIZE),
                               "queue_align", PAGE_SIZE),
                         "queue_pfn", page.paddr \div PAGE_SIZE)),
               SUPPORTED_FEATURES("blk"),
               VirtIoQueue_of(BLK_QUEUE_SIZE, ZeroTable(BLK_QUEUE_SIZE),
                              ZeroAvail(BLK_QUEUE_SIZE), ZeroUsed(BLK_QUEUE_SIZE)),
               NoQueue))))

\* VirtIOBlk::new (block/mod.rs:30-74)
VirtIOBlk_new(io) ==
    Bind(general_init(io, SUPPORTED_FEATURES("blk")), LAMBDA g :
    IF g.ret.tag # "Ok" THEN Built(g.ret, g.io, {}, NoQueue, NoQueue)
    ELSE VirtIOBlk_new_queue(g.io, dma_alloc(0)))

\* the constructor of a driver of the given kind; a constructor that took
\* the transport and returns an error drops the transport on its way out
Driver_new(kind, version, io) ==
    Bind(CASE kind = "console" -> VirtIOConsole_new(version, io)
           [] kind = "gpu" -> VirtIOGpu_new(version, io)
           [] kind = "input" -> VirtIOInput_new(version, io)
           [] kind = "net" -> VirtIONetRaw_new(version, io)
           [] kind = "blk" -> VirtIOBlk_new(io), LAMBDA r :
    IF kind # "blk" /\ r.ret.tag \notin {"Ok", "panic"}
    THEN [r EXCEPT !.io = MmioTransport_drop(r.io)]
    ELSE r)

-----------------------------------------------------------------------------
(* The queue under arbitrary calls: SpecQueue *)

\* the other components stay idle while the queue is explored
IdleWait == w_pc = "idle" /\ w_class = "none" /\ w_token = -1 /\ w_chain = <<>>
IdleMmio ==
    /\ regs = DeviceRegs(MAGIC, MODERN_VERSION, 3, NET_QUEUE_SIZE, [i \in QueueIdxs |-> 0])
    /\ io_log = <<>>
IdleDrv ==
    d_pc = "idle" /\ drv = [kind |-> "none"] /\ d_ret = [tag |-> "none", val |-> 0]
IdleNew == /\ t_pc = "idle" /\ transport = [tag |-> "none", val |-> 0]
           /\ new_size = 0 /\ new_queue_idx = 0 /\ new_ret = "none"

\* the state VirtIoQueue::new leaves on a fresh (zeroed) page
FreshQueue(n) == VirtIoQueue_of(n, ZeroTable(n), ZeroAvail(n), ZeroUsed(n))

SetQueue(q) ==
    /\ avail_desc_index' = q.avail_desc_index
    /\ last_seen_used' = q.last_seen_used
    /\ poped_used' = q.poped_used
    /\ descriptor_table' = q.descriptor_table
    /\ avail_ring' = q.avail_ring
    /\ used_ring' = q.used_ring

\* the state holds queue q
IsQueue(q) ==
    /\ avail_desc_index = q.avail_desc_index
    /\ last_seen_used = q.last_seen_used
    /\ poped_used = q.poped_used
    /\ descriptor_table = q.descriptor_table
    /\ avail_ring = q.avail_ring
    /\ used_ring = q.used_ring

InitQueue ==
    /\ IsQueue(FreshQueue(CONSOLE_QUEUE_SIZE))
    /\ live = {}
    /\ held = {}
    /\ adds_done = 0
    /\ last_call = [op |-> "new", arg |-> 0, ret |-> Ok(0), want |-> {}]
    /\ IdleWait /\ IdleMmio /\ IdleNew /\ IdleDrv

\* one add / device-complete / pop_used cycle of a console send, the device
\* answering at once (add_notify_wait_pop, queue.rs:77-92)
one_cycle(q) ==
    LET a == add(q, ConsoleSendChain)
        u == device_use(a.q, a.ret.val, 1)
    IN pop_used(u, a.ret.val).q

RECURSIVE cycles(_, _)
cycles(q, n) ==
    IF n = 0 THEN q
    ELSE LET q1 == one_cycle(q)
         IN IF q1.last_seen_used >= 0 THEN cycles(q1, n - 1) ELSE q1

\* the calls are explored from avail.idx = 0 and from avail.idx = WrapStart
Exploring == adds_done > 0 \/ avail_ring.idx \in {0, WrapStart}

\* The driver runs send cycles, nothing else outstanding, until avail.idx
\* reaches WrapStart; a step of this action is a run of such cycles.
WarmUp ==
    /\ adds_done = 0 /\ live = {}
    /\ avail_ring.idx < WrapStart
    /\ LET fits == {k \in {1, 8, 64} : avail_ring.idx + k <= WrapStart}
           n == CHOOSE k \in fits : \A j \in fits : j <= k
       IN SetQueue(cycles(Q, n))
    /\ last_call' = [op |-> "send_cycles", arg |-> 0, ret |-> Ok(1), want |-> {}]
    /\ UNCHANGED <<live, held, adds_done, wvars, dvars, mvars, nvars>>

\* add(data): a chain record is born with the descriptor slots add took
Add(data) ==
    /\ Exploring /\ adds_done < MaxAdds
    /\ LET r == add(Q, data)
       IN /\ SetQueue(r.q)
          /\ last_call' = [op |-> "add", arg |-> Len(data), ret |-> r.ret, want |-> {}]
          /\ IF r.ret.tag = "Ok"
             THEN /\ live' = live \cup
                        {[pos |-> avail_ring.idx, head |-> r.ret.val,
                          idxs |-> Range(SubSeq(avail_desc_index, 1, Len(data))),
                          upos |-> -1, len |-> 0]}
                  /\ held' = held \cup {r.ret.val}
                  /\ adds_done' = adds_done + 1
             ELSE UNCHANGED <<live, held, adds_done>>
    /\ UNCHANGED <<wvars, dvars, mvars, nvars>>

\* the device completes a published chain, in any order, reporting len
DeviceComplete(c, len) ==
    /\ Exploring
    /\ c \in live /\ c.upos = -1
    /\ SetQueue(device_use(Q, c.head, len))
    /\ live' = (live \ {c}) \cup {[c EXCEPT !.upos = used_ring.idx, !.len = len]}
    /\ UNCHANGED <<held, adds_done, last_call, wvars, dvars, mvars, nvars>>

\* the device sets or clears the NO_NOTIFY flag of the used ring
DeviceSetFlags(f) ==
    /\ Exploring
    /\ used_ring.flags # f
    /\ used_ring' = [used_ring EXCEPT !.flags = f]
    /\ UNCHANGED <<avail_desc_index, last_seen_used, poped_used, descriptor_table,
                   avail_ring, gvars, wvars, dvars, mvars, nvars>>

\* pop_used(id), called by the holder of token id, also before the device has
\* completed the chain (speculative polling): the chain whose used element was
\* consumed is reclaimed
PopUsed(id) ==
    /\ Exploring
    /\ id \in held
    /\ LET r == pop_used(Q, id)
       IN /\ SetQueue(r.q)
          /\ last_call' = [op |-> "pop_used", arg |-> id, ret |-> r.ret,
                           want |-> {c.len : c \in {x \in live : x.head = id /\ x.upos # -1}}]
          /\ live' = IF r.ret.tag = "Ok"
                     THEN {c \in live : c.upos # r.header} ELSE live
          /\ held' = IF r.ret.tag = "Ok" THEN held \ {id} ELSE held
    /\ UNCHANGED <<adds_done, wvars, dvars, mvars, nvars>>

\* the calls that only read
CanPop(id) ==
    /\ Exploring
    /\ last_call' = [op |-> "can_pop", arg |-> id,
                     ret |-> Ok(IF can_pop(Q, id) THEN 1 ELSE 0), want |-> {}]
    /\ UNCHANGED <<qvars, live, held, adds_done, wvars, dvars, mvars, nvars>>

PeekUsed ==
    /\ Exploring
    /\ last_call' = [op |-> "peek_used", arg |-> 0, ret |-> Ok(peek_used(Q)), want |-> {}]
    /\ UNCHANGED <<qvars, live, held, adds_done, wvars, dvars, mvars, nvars>>

ShouldNotify ==
    /\ Exploring
    /\ last_call' = [op |-> "should_notify", arg |-> 0,
                     ret |-> Ok(IF should_notify(Q) THEN 1 ELSE 0), want |-> {}]
    /\ UNCHANGED <<qvars, live, held, adds_done, wvars, dvars, mvars, nvars>>

Tokens == 0..(SIZE - 1)

NextQueue ==
    \/ WarmUp
    \/ \E data \in Chains : Add(data)
    \/ \E c \in live, len \in 1..MaxLen : DeviceComplete(c, len)
    \/ \E f \in {0, NO_NOTIFY} : DeviceSetFlags(f)
    \/ \E id \in Tokens : PopUsed(id)
    \/ \E id \in Tokens : CanPop(id)
    \/ PeekUsed
    \/ ShouldNotify

SpecQueue == InitQueue /\ [][NextQueue]_vars

-----------------------------------------------------------------------------
(* Properties of the queue engine *)

RECURSIVE SumLens(_)
SumLens(S) ==
    IF S = {} THEN 0
    ELSE LET c == CHOOSE x \in S : TRUE
         IN Cardinality(c.idxs) + SumLens(S \ {c})

\* the used-ring positions not yet read: last_seen_used .. used.idx, wrapping
Unread == {wrapping_add(last_seen_used, k) :
               k \in 0..(wrapping_sub(used_ring.idx, last_seen_used) - 1)}

\* C1: between calls, the free list holds no index twice, holds no index of a
\* chain that is published and not yet reclaimed, and its length plus the
\* lengths of those chains is SIZE.
C1_FreeListAccounts ==
    /\ NoDup(avail_desc_index)
    /\ \A c \in live : c.idxs \cap Range(avail_desc_index) = {}
    /\ Len(avail_desc_index) + SumLens(live) = SIZE

\* C2: an add of a chain longer than the free list returns QueueFull and
\* leaves the free list, the descriptor table and the available ring (and the
\* rest of the queue) as they were.
C2_QueueFullMutatesNothing ==
    [][\A data \in Chains :
          (Add(data) /\ Len(data) > Len(avail_desc_index))
              => (last_call'.ret.tag = "QueueFull" /\ UNCHANGED qvars)]_vars

\* an add was refused although some descriptor, but not enough, was free
C2_Witness ==
    /\ last_call.op = "add" /\ last_call.ret.tag = "QueueFull"
    /\ Len(avail_desc_index) > 0 /\ last_call.arg > Len(avail_desc_index)

\* C3: pop_used(t) with no element of id t among the unread used elements
\* returns NotReady and leaves the free list, last_seen_used and the completion
\* set as they were.
C3_NotReadyIsReturned ==
    [][\A id \in Tokens :
          (PopUsed(id) /\ ~(\E p \in Unread : used_ring.ring[p % SIZE].id = id))
              => /\ last_call'.ret.tag = "NotReady"
                 /\ UNCHANGED <<avail_desc_index, last_seen_used, poped_used>>]_vars

\* pop_used searched a non-empty unread range and returned NotReady
C3_Witness ==
    /\ last_call.op = "pop_used" /\ last_call.ret.tag = "NotReady"
    /\ last_seen_used # used_ring.idx
    /\ last_call.arg \in held

\* C4: every held token whose chain the device has completed can be popped,
\* and pop_used of it returns the len the device wrote for that chain, in
\* whatever order the tokens are popped.
C4_OutOfOrderPop ==
    /\ \A c \in live : (c.upos # -1 /\ c.head \in held) => can_pop(Q, c.head)
    /\ (last_call.op = "pop_used" /\ last_call.want # {})
           => (last_call.ret.tag = "Ok" /\ last_call.ret.val \in last_call.want)

\* C5: avail.idx moves only by a successful add, and then by exactly one
\* (mod 2^16); a run of send cycles moves it forward by its number of adds.
C5_AvailIdxOnlyIncrements ==
    [][IF (\E data \in Chains : Add(data)) /\ last_call'.ret.tag = "Ok"
       THEN avail_ring'.idx = (avail_ring.idx + 1) % 65536
       ELSE \/ avail_ring'.idx = avail_ring.idx
            \/ WarmUp /\ avail_ring'.idx > avail_ring.idx]_vars

\* a successful add has taken avail.idx from 65535 to 0
C5_Witness ==
    /\ last_call.op = "add" /\ last_call.ret.tag = "Ok"
    /\ avail_ring.idx = 0

-----------------------------------------------------------------------------
(* The queue read in used-ring order across the 16-bit wrap: SpecWrap *)

InitWrap ==
    /\ IsQueue(FreshQueue(NET_QUEUE_SIZE))
    /\ live = {}
    /\ held = {}
    /\ adds_done = 0
    /\ last_call = [op |-> "new", arg |-> 0, ret |-> Ok(0), want |-> {}]
    /\ IdleWait /\ IdleMmio /\ IdleNew /\ IdleDrv

\* pop_used of the token peek_used returns, the oldest unread used element
\* (the input driver's pop_pending_event, input/mod.rs:73-83)
PopNext ==
    /\ peek_used(Q) # -1
    /\ PopUsed(peek_used(Q))

\* an add made once the send cycles have taken the indices to WrapStart
WrapAdd(data) ==
    /\ adds_done > 0 \/ avail_ring.idx = WrapStart
    /\ Add(data)

NextWrap ==
    \/ WarmUp
    \/ \E data \in {ConsoleSendChain, GpuRequestChain} : WrapAdd(data)
    \/ \E c \in live, len \in 1..MaxLen : DeviceComplete(c, len)
    \/ PopNext

SpecWrap == InitWrap /\ [][NextWrap]_vars

\* the chains the device has completed and the driver has not yet popped
Completed == {c \in live : c.upos # -1}

\* C6: across the wrap of avail.idx, used.idx and last_seen_used from 65535 to
\* 0, can_pop, peek_used and pop_used see exactly the unread used elements,
\* every ring slot is the index mod SIZE, and the free list holds all SIZE
\* indices whenever nothing is outstanding.
C6_WrapKeepsEngineCorrect ==
    /\ Unread = {c.upos : c \in Completed}
    /\ \A t \in Tokens : can_pop(Q, t) <=> (\E c \in Completed : c.head = t)
    /\ peek_used(Q) = IF Completed = {} THEN -1
                      ELSE (CHOOSE c \in Completed : c.upos = last_seen_used).head
    /\ (last_call.op = "pop_used")
           => (last_call.ret.tag = "Ok" /\ last_call.ret.val \in last_call.want)
    /\ \A c \in Completed :
           used_ring.ring[c.upos % SIZE] = [id |-> c.head, len |-> c.len]
    /\ \A c \in live : avail_ring.ring[c.pos % SIZE] = c.head
    /\ (live = {}) => (Len(avail_desc_index) = SIZE
                         /\ Range(avail_desc_index) = 0..(SIZE - 1))

\* two completed chains are unread, one written at used position 65535 and
\* one at position 0, after more than 65536 cycles
C6_Witness ==
    /\ last_seen_used = 65535 /\ used_ring.idx = 1
    /\ {c.upos : c \in Completed} = {65535, 0}
    /\ avail_ring.idx = 1

\* C26: a pop_used that returns Ok leaves last_seen_used at the first used
\* position, counting from where it was, that no pop has consumed, or at
\* used.idx when there is none: every position it passed is consumed, it is
\* not in the completion set, and the completion set holds exactly the
\* consumed positions between it and used.idx.
C26_LastSeenUsedAdvance ==
    [][(last_call'.op = "pop_used" /\ avail_desc_index' # avail_desc_index) =>
        LET n == wrapping_sub(used_ring.idx, last_seen_used)
            adv == wrapping_sub(last_seen_used', last_seen_used)
            consumed(k) == \A c \in live' : c.upos # wrapping_add(last_seen_used, k)
        IN /\ adv <= n
           /\ \A k \in 0..(adv - 1) : consumed(k)
           /\ adv < n => ~consumed(adv)
           /\ last_seen_used' \notin poped_used'
           /\ poped_used' = {wrapping_add(last_seen_used, k) :
                                k \in {j \in (adv + 1)..(n - 1) : consumed(j)}}]_vars

\* a chain completed second has been popped first: its position is in the
\* completion set and last_seen_used has stayed at the chain before it
C26_Witness ==
    /\ last_call.op = "pop_used" /\ last_call.ret.tag = "Ok"
    /\ last_seen_used = WrapStart /\ used_ring.idx = 0
    /\ poped_used = {WrapStart + 1}

\* C27: with a device that completes published chains only, each once, the
\* number of used elements the driver has not passed, used.idx -
\* last_seen_used modulo 2^16, is at most the size of the queue.
C27_UnreadBounded ==
    wrapping_sub(used_ring.idx, last_seen_used) <= SIZE

\* C36: a used element that a pop_used has consumed is not matched again:
\* can_pop(t) holds only while a chain published with token t is completed
\* and not popped.
C36_ConsumedIsNotMatchedAgain ==
    \A t \in Tokens :
        can_pop(Q, t) => \E c \in live : c.head = t /\ c.upos # -1

\* C37: a completion is not lost: a step that does not pop a completed chain
\* leaves it poppable, whatever else is popped, added or completed.
C37_CompletionIsNotLost ==
    [][\A c \in live \cap live' :
          (c.upos # -1 /\ can_pop(Q, c.head)) =>
              can_pop([avail_desc_index |-> avail_desc_index',
                       last_seen_used |-> last_seen_used',
                       poped_used |-> poped_used',
                       descriptor_table |-> descriptor_table',
                       avail_ring |-> avail_ring',
                       used_ring |-> used_ring'], c.head)]_vars

-----------------------------------------------------------------------------
(* Building a queue on a transport: SpecNew *)

\* the capacities new is instantiated with, and the maximum queue sizes the
\* device advertises
NewSizes == {GPU_QUEUE_SIZE, 3, NET_QUEUE_SIZE, U16}
MaxSizes == {0, 8, NET_QUEUE_SIZE, 1024}

\* the pages H::dma_alloc may return (my_impl.rs:69-73 hands out memory as it
\* is): what the bytes of the rings' flags and idx fields hold
Pages == {[paddr |-> 3 * PAGE_SIZE, avail_flags |-> f, avail_idx |-> a,
           used_idx |-> u] : f \in {0, 1}, a \in {0, 7}, u \in {0, 3}}

InitNew ==
    /\ IsQueue(NoQueue)
    /\ live = {} /\ held = {} /\ adds_done = 0
    /\ last_call = [op |-> "none", arg |-> 0, ret |-> Ok(0), want |-> {}]
    /\ IdleWait /\ IdleDrv
    /\ \E version \in {LEGACY_VERSION, MODERN_VERSION}, num_max \in MaxSizes,
          inuse \in [QueueIdxs -> {0, 1}] :
          /\ transport = Ok(version)
          /\ regs = DeviceRegs(MAGIC, version, 3, num_max, inuse)
    /\ io_log = <<>>
    /\ t_pc = "queue_new"
    /\ new_size \in NewSizes
    /\ new_queue_idx \in QueueIdxs
    /\ new_ret = "none"

\* VirtIoQueue::<H, new_size>::new(transport, new_queue_idx)
QueueNew ==
    /\ t_pc = "queue_new"
    /\ \E page \in Pages :
          LET r == VirtIoQueue_new(transport.val, [regs |-> regs, log |-> io_log],
                                   new_queue_idx, new_size, page)
          IN /\ SetQueue(r.q)
             /\ regs' = r.io.regs
             /\ io_log' = r.io.log
             /\ new_ret' = r.ret.tag
             /\ last_call' = [op |-> "new", arg |-> new_size, ret |-> r.ret, want |-> {}]
    /\ t_pc' = "done"
    /\ UNCHANGED <<live, held, adds_done, wvars, dvars, transport, new_size, new_queue_idx>>

NextNew == QueueNew

SpecNew == InitNew /\ [][NextNew]_vars

\* C7: right after a successful new, whatever the page held before, avail.flags,
\* avail.idx, used.idx and last_seen_used are 0, the completion set is empty and
\* the free list is 0, 1, ..., SIZE-1 in that order.
C7_NewQueueIsReset ==
    (t_pc = "done" /\ new_ret = "Ok") =>
        /\ avail_ring.flags = 0 /\ avail_ring.idx = 0 /\ used_ring.idx = 0
        /\ last_seen_used = 0 /\ poped_used = {}
        /\ avail_desc_index = [i \in 1..new_size |-> i - 1]

\* C8: new returns AlreadyUsed when the transport reports the queue in use,
\* and otherwise InvalidParam when SIZE is no power of two, exceeds 65535 or
\* exceeds the device's maximum; on both errors no queue register but queue_sel
\* has been written and no queue is built.
C8_NewRejectsWithoutQueueSet ==
    [][(t_pc = "queue_new" /\ t_pc' = "done") =>
        LET inuse == IF transport.val = LEGACY_VERSION
                     THEN regs.queue_pfn[new_queue_idx] # 0
                     ELSE regs.queue_ready[new_queue_idx] # 0
            bad == \/ ~(\E k \in 0..16 : new_size = 2^k)
                   \/ new_size > 65535
                   \/ regs.queue_num_max[new_queue_idx] < new_size
        IN /\ inuse => new_ret' = "AlreadyUsed"
           /\ (~inuse /\ bad) => new_ret' = "InvalidParam"
           /\ (~inuse /\ ~bad) => new_ret' = "Ok"
           /\ (new_ret' \in {"AlreadyUsed", "InvalidParam"}) =>
                 /\ \A i \in 1..Len(io_log') :
                        io_log'[i].op = "write" => io_log'[i].reg = "queue_sel"
                 /\ regs' = [regs EXCEPT !.queue_sel = new_queue_idx]
                 /\ UNCHANGED qvars]_vars

\* new has refused a power-of-two size that the device's maximum is below,
\* after asking the device for both
C8_Witness ==
    /\ t_pc = "done" /\ new_ret = "InvalidParam"
    /\ new_size = NET_QUEUE_SIZE
    /\ regs.queue_num_max[new_queue_idx] = 8
    /\ Len(io_log) = 4

\* the slot reached from slot h by following next j times
RECURSIVE follow(_, _, _)
follow(table, h, j) ==
    IF j = 0 THEN h ELSE follow(table, table[h].next % SIZE_of(table), j - 1)

\* C25: when add has returned token h for a chain of k descriptors, h is in
\* the ring slot of the avail.idx before the call; following next from h
\* visits k distinct slots that hold the caller's descriptors in the caller's
\* order; and NEXT is set on every one of them but the last, whatever the
\* caller's NEXT flags were.
C25_AddLinksChain ==
    (w_pc = "notify") =>
        LET k == Len(w_chain)
        IN /\ avail_ring.ring[wrapping_sub(avail_ring.idx, 1) % SIZE] = w_token
           /\ Cardinality({follow(descriptor_table, w_token, j) : j \in 0..(k - 1)}) = k
           /\ \A j \in 1..k :
                 LET d == descriptor_table[follow(descriptor_table, w_token, j - 1)]
                 IN /\ d.addr = w_chain[j].addr
                    /\ d.len = w_chain[j].len
                    /\ HasFlag(d.flags, WRITE) = HasFlag(w_chain[j].flags, WRITE)
                    /\ HasFlag(d.flags, NEXT) = (j < k)

-----------------------------------------------------------------------------
(* The layout of the queue page for every size: SpecLayout *)

\* the powers of two up to 32768
LayoutSizes == {2^k : k \in 0..15}

\* new of a queue of every size on a transport whose device takes every size
InitLayout ==
    /\ IsQueue(NoQueue)
    /\ live = {} /\ held = {} /\ adds_done = 0
    /\ last_call = [op |-> "none", arg |-> 0, ret |-> Ok(0), want |-> {}]
    /\ IdleWait /\ IdleDrv
    /\ \E version \in {LEGACY_VERSION, MODERN_VERSION} :
          /\ transport = Ok(version)
          /\ regs = DeviceRegs(MAGIC, version, 3, 32768, [i \in QueueIdxs |-> 0])
    /\ io_log = <<>>
    /\ t_pc = "queue_new"
    /\ new_size \in LayoutSizes
    /\ new_queue_idx \in QueueIdxs
    /\ new_ret = "none"

SpecLayout == InitLayout /\ [][NextNew]_vars

\* C35: for every power of two N up to 32768 the descriptor table, the
\* available ring and the used ring do not overlap, the used ring starts at
\* a multiple of PAGE_SIZE and ends within the pages allocated, and new's
\* queue_set passes the assertions of a legacy transport.
C35_QueuePageLayout ==
    (t_pc = "done") =>
        LET N == new_size
            avail_end == AVAIL_RING_OFFSET(N) + size_of_AvailRing(N)
            used_end == USED_RING_OFFSET(N) + size_of_UsedRing(N)
        IN /\ SIZE_OF_DESCRIPTOR * N <= AVAIL_RING_OFFSET(N)
           /\ avail_end <= USED_RING_OFFSET(N)
           /\ USED_RING_OFFSET(N) % PAGE_SIZE = 0
           /\ used_end <= pages(total_size(N)) * PAGE_SIZE
           /\ new_ret = "Ok"
           /\ transport.val = LEGACY_VERSION =>
                 regs.queue_pfn[new_queue_idx] = (3 * PAGE_SIZE) \div PAGE_SIZE

\* a queue of 32768 has been set on a legacy transport
C35_Witness ==
    /\ t_pc = "done" /\ new_ret = "Ok" /\ new_size = 32768
    /\ transport.val = LEGACY_VERSION
    /\ regs.queue_pfn[new_queue_idx] = 3

-----------------------------------------------------------------------------
(* Probing a device: SpecMmio *)

Magics == {MAGIC, 0, MAGIC + 1, 1986622068}
DeviceIds == 0..3
Versions == 0..3

InitMmio ==
    /\ IsQueue(NoQueue)
    /\ live = {} /\ held = {} /\ adds_done = 0
    /\ last_call = [op |-> "none", arg |-> 0, ret |-> Ok(0), want |-> {}]
    /\ IdleWait /\ IdleDrv
    /\ \E magic \in Magics, device_id \in DeviceIds, version \in Versions :
          regs = DeviceRegs(magic, version, device_id, NET_QUEUE_SIZE,
                            [i \in QueueIdxs |-> 0])
    /\ io_log = <<>>
    /\ t_pc = "new"
    /\ transport = [tag |-> "none", val |-> 0]
    /\ new_size = 0 /\ new_queue_idx = 0 /\ new_ret = "none"

\* MmioTransport::new(io_region)
TransportNew ==
    /\ t_pc = "new"
    /\ LET r == MmioTransport_new([regs |-> regs, log |-> io_log])
       IN /\ transport' = r.ret
          /\ regs' = r.io.regs
          /\ io_log' = r.io.log
    /\ t_pc' = "probe"
    /\ UNCHANGED <<qvars, gvars, wvars, dvars, new_size, new_queue_idx, new_ret>>

\* virtio_probe after the constructor returned (new_test.rs:70-80)
Probe ==
    /\ t_pc = "probe"
    /\ t_pc' = virtio_probe(transport)
    /\ UNCHANGED <<qvars, gvars, wvars, dvars, mvars, transport, new_size,
                   new_queue_idx, new_ret>>

NextMmio == TransportNew \/ Probe

SpecMmio == InitMmio /\ [][NextMmio]_vars

\* C10: the constructor reports BadMagic(magic) before ZeroDeviceId before
\* UnsupportedVersion(version), returns a transport (Legacy for 1, Modern for
\* 2) only when all three checks pass, reads the registers in that order and
\* writes none; a zero device id never probes as a device.
C10_ConstructionPrecedence ==
    (t_pc # "new") =>
        /\ transport =
              IF regs.magic # 1953655158
              THEN [tag |-> "BadMagic", val |-> regs.magic]
              ELSE IF regs.device_id = 0
              THEN [tag |-> "ZeroDeviceId", val |-> 0]
              ELSE IF regs.version \notin {1, 2}
              THEN [tag |-> "UnsupportedVersion", val |-> regs.version]
              ELSE [tag |-> "Ok", val |-> regs.version]
        /\ \A i \in 1..Len(io_log) : io_log[i].op = "read"
        /\ [i \in 1..Len(io_log) |-> io_log[i].reg] =
              SubSeq(<<"magic", "device_id", "version">>, 1, Len(io_log))
        /\ (t_pc = "device") => (transport.tag = "Ok" /\ regs.device_id # 0)
        /\ (regs.device_id = 0) => (t_pc \in {"probe", "skipped", "warned"})

\* a device window that fails the device-id and the version check at once has
\* been probed and skipped
C10_Witness ==
    /\ t_pc = "skipped"
    /\ regs.magic = 1953655158 /\ regs.device_id = 0 /\ regs.version = 3
    /\ transport.tag = "ZeroDeviceId"

-----------------------------------------------------------------------------
(* add_notify_wait_pop, step by step, against a device: SpecWait *)

\* the requests the drivers submit and wait for, each on a queue of its own
Classes == {"blk_request", "console_send", "gpu_request", "gpu_cursor_request"}

ClassChain(class) ==
    CASE class = "blk_request" -> BlkReadChain
      [] class = "console_send" -> ConsoleSendChain
      [] class = "gpu_request" -> GpuRequestChain
      [] class = "gpu_cursor_request" -> GpuCursorChain

ClassSize(class) ==
    CASE class = "blk_request" -> BLK_QUEUE_SIZE
      [] class = "console_send" -> CONSOLE_QUEUE_SIZE
      [] class = "gpu_request" -> GPU_QUEUE_SIZE
      [] class = "gpu_cursor_request" -> GPU_QUEUE_SIZE

\* the queue index of the class's queue (console/mod.rs:14-15, gpu/ty.rs:213-214)
ClassQueueIdx(class) ==
    IF class \in {"console_send", "gpu_cursor_request"} THEN 1 ELSE 0

InitWait ==
    /\ \E class \in Classes :
          /\ w_class = class
          /\ w_chain = ClassChain(class)
          /\ IsQueue(FreshQueue(ClassSize(class)))
    /\ w_pc = "add" /\ w_token = -1
    /\ live = {} /\ held = {} /\ adds_done = 0
    /\ last_call = [op |-> "new", arg |-> 0, ret |-> Ok(0), want |-> {}]
    /\ IdleMmio /\ IdleNew /\ IdleDrv

\* let token = self.add(descriptors)? (queue.rs:82)
WaitAdd ==
    /\ w_pc = "add"
    /\ LET r == add(Q, w_chain)
       IN /\ SetQueue(r.q)
          /\ IF r.ret.tag = "Ok"
             THEN /\ live' = live \cup
                        {[pos |-> avail_ring.idx, head |-> r.ret.val,
                          idxs |-> Range(SubSeq(avail_desc_index, 1, Len(w_chain))),
                          upos |-> -1, len |-> 0]}
                  /\ held' = held \cup {r.ret.val}
                  /\ w_token' = r.ret.val
                  /\ w_pc' = "notify"
                  /\ UNCHANGED last_call
             ELSE /\ w_pc' = "done"
                  /\ last_call' = [op |-> "add_notify_wait_pop", arg |-> Len(w_chain),
                                   ret |-> r.ret, want |-> {}]
                  /\ UNCHANGED <<live, held, w_token>>
    /\ adds_done' = adds_done + 1
    /\ UNCHANGED <<w_class, w_chain, mvars, nvars, dvars>>

\* if self.should_notify() { transport.notify(self.queue_idx)? } (queue.rs:84-86)
WaitNotify ==
    /\ w_pc = "notify"
    /\ IF should_notify(Q)
       THEN LET io == notify([regs |-> regs, log |-> io_log], ClassQueueIdx(w_class))
            IN regs' = io.regs /\ io_log' = io.log
       ELSE UNCHANGED mvars
    /\ w_pc' = "wait"
    /\ UNCHANGED <<qvars, gvars, w_class, w_token, w_chain, nvars, dvars>>

\* while !self.can_pop(token)? { spin_loop() } (queue.rs:88-90): the loop is
\* left once can_pop is true
WaitSpin ==
    /\ w_pc = "wait"
    /\ can_pop(Q, w_token)
    /\ w_pc' = "pop"
    /\ UNCHANGED <<qvars, gvars, w_class, w_token, w_chain, mvars, nvars, dvars>>

\* self.pop_used(token) (queue.rs:91); a chain walk that never ends leaves the
\* call hung
WaitPop ==
    /\ w_pc = "pop"
    /\ LET r == pop_used(Q, w_token)
       IN /\ SetQueue(r.q)
          /\ w_pc' = IF r.ret.tag = "loop" THEN "hung" ELSE "done"
          /\ last_call' = [op |-> "add_notify_wait_pop", arg |-> Len(w_chain),
                           ret |-> r.ret,
                           want |-> {c.len : c \in {x \in live : x.head = w_token
                                                                /\ x.upos # -1}}]
          /\ live' = IF r.ret.tag = "Ok"
                     THEN {c \in live : c.upos # r.header} ELSE live
          /\ held' = IF r.ret.tag = "Ok" THEN held \ {w_token} ELSE held
    /\ UNCHANGED <<adds_done, w_class, w_token, w_chain, mvars, nvars, dvars>>

\* the driver submits its next request
WaitAgain ==
    /\ w_pc = "done"
    /\ adds_done < MaxCalls
    /\ w_pc' = "add"
    /\ UNCHANGED <<qvars, gvars, w_class, w_token, w_chain, mvars, nvars, dvars>>

NextWait ==
    \/ WaitAdd
    \/ WaitNotify
    \/ WaitSpin
    \/ WaitPop
    \/ WaitAgain
    \/ \E c \in live, len \in 1..MaxLen : DeviceComplete(c, len)
    \/ \E f \in {0, NO_NOTIFY} : DeviceSetFlags(f)

SpecWait == InitWait /\ [][NextWait]_vars

\* C9: once the device has written the used element of the published chain,
\* add_notify_wait_pop returns: its pop_used ends, the call returns the len the
\* device wrote and every descriptor of the chain is back in the free list;
\* for block requests, console sends, GPU control and GPU cursor requests.
C9_WaitPopReturns ==
    /\ w_pc # "hung"
    /\ (w_pc = "done") =>
           /\ last_call.ret.tag = "Ok"
           /\ last_call.ret.val \in last_call.want
           /\ Len(avail_desc_index) = SIZE
           /\ Range(avail_desc_index) = 0..(SIZE - 1)

\* C23: a GPU command, on the control queue or on the cursor queue, is
\* published as a chain of two descriptors: the request, flagged NEXT and
\* not WRITE, whose next is the response, flagged WRITE and not NEXT.
C23_GpuChainsArePairs ==
    (w_class \in {"gpu_request", "gpu_cursor_request"}
        /\ w_pc \in {"notify", "wait", "pop"}) =>
        LET req == descriptor_table[w_token]
            rsp == descriptor_table[req.next]
        IN /\ Len(w_chain) = 2
           /\ HasFlag(req.flags, NEXT) /\ ~HasFlag(req.flags, WRITE)
           /\ req.next # w_token
           /\ HasFlag(rsp.flags, WRITE) /\ ~HasFlag(rsp.flags, NEXT)

-----------------------------------------------------------------------------
(* Probing a device, building a driver on it, dropping it: SpecInit *)

\* the features a device offers and, among them, those it insists on
DeviceFeatureSets == {{}, {FLUSH, RING_EVENT_IDX},
                      {RING_EVENT_IDX, VERSION_1},
                      {NET_MAC, FLUSH, VERSION_1, 38}}
RequiredSets == {{}, {RING_EVENT_IDX}, {VERSION_1}}
DeviceMaxSizes == {NET_QUEUE_SIZE, 1024}

InitInit ==
    /\ IsQueue(NoQueue)
    /\ live = {} /\ held = {} /\ adds_done = 0
    /\ last_call = [op |-> "none", arg |-> 0, ret |-> Ok(0), want |-> {}]
    /\ IdleWait /\ IdleDrv
    /\ \E version \in {LEGACY_VERSION, MODERN_VERSION},
          offered \in DeviceFeatureSets, required \in RequiredSets,
          num_max \in DeviceMaxSizes, lazy \in BOOLEAN :
          /\ required \subseteq offered
          /\ regs = [DeviceRegs(MAGIC, version, 1, num_max, [i \in QueueIdxs |-> 0])
                       EXCEPT !.device_features = [w \in {0, 1} |->
                                  IF w = 0 THEN as_u32(offered) ELSE shr32(offered)],
                              !.required = required, !.lazy = lazy]
    /\ io_log = <<>>
    /\ t_pc = "new"
    /\ transport = [tag |-> "none", val |-> 0]
    /\ new_size = 0 /\ new_queue_idx = 0 /\ new_ret = "none"

\* virtio_device (new_test.rs:94-140): the constructor of a driver, called
\* with the transport the probe built
DriverNew(kind) ==
    /\ t_pc = "device" /\ d_pc = "idle"
    /\ LET r == Driver_new(kind, transport.val, [regs |-> regs, log |-> io_log])
       IN /\ regs' = r.io.regs
          /\ io_log' = r.io.log
          /\ d_ret' = r.ret
          /\ drv' = [kind |-> kind, features |-> r.features, unset |-> 0,
                     spins |-> 0]
    /\ d_pc' = IF d_ret'.tag = "Ok" THEN "built" ELSE "failed"
    /\ UNCHANGED <<qvars, gvars, wvars, nvars>>

\* the drivers whose Drop unsets their two queues (console/mod.rs:169-180,
\* gpu/mod.rs:297-308)
UnsettingDrivers == {"console", "gpu"}

\* Drop of the driver: queue_unset of its next queue, up to the loop
DropUnset ==
    /\ d_pc = "built" /\ drv.kind \in UnsettingDrivers /\ drv.unset \in QueueIdxs
    /\ LET r == queue_unset_begin(transport.val, [regs |-> regs, log |-> io_log],
                                  drv.unset)
       IN /\ regs' = r.io.regs
          /\ io_log' = r.io.log
          /\ d_pc' = IF r.done THEN "built" ELSE "unset_wait"
          /\ drv' = IF r.done THEN [drv EXCEPT !.unset = @ + 1] ELSE drv
    /\ UNCHANGED <<qvars, gvars, wvars, nvars, d_ret>>

\* one turn of the loop of queue_unset; the call returns when the loop ends
DropUnsetWait ==
    /\ d_pc = "unset_wait"
    /\ LET r == queue_unset_wait([regs |-> regs, log |-> io_log])
       IN /\ regs' = r.io.regs
          /\ io_log' = r.io.log
          /\ d_pc' = IF r.done THEN "built" ELSE "unset_wait"
          /\ IF r.done THEN drv' = [drv EXCEPT !.unset = @ + 1]
             ELSE /\ drv.spins < MaxSpins
                  /\ drv' = [drv EXCEPT !.spins = @ + 1]
    /\ UNCHANGED <<qvars, gvars, wvars, nvars, d_ret>>

\* the device takes a queue out of use
DeviceSync ==
    /\ \E q \in regs.pending :
          regs' = [regs EXCEPT !.queue_ready[q] = 0, !.pending = @ \ {q}]
    /\ UNCHANGED <<qvars, gvars, wvars, nvars, dvars, io_log>>

\* the transport, a field of the driver, is dropped after the driver's own
\* Drop has run
TransportDrop ==
    /\ d_pc = "built" /\ drv.kind # "blk"
    /\ drv.kind \in UnsettingDrivers => drv.unset \notin QueueIdxs
    /\ LET io == MmioTransport_drop([regs |-> regs, log |-> io_log])
       IN regs' = io.regs /\ io_log' = io.log
    /\ d_pc' = "dropped"
    /\ UNCHANGED <<qvars, gvars, wvars, nvars, drv, d_ret>>

NextInit ==
    \/ TransportNew \/ Probe
    \/ \E kind \in Drivers : DriverNew(kind)
    \/ DropUnset \/ DropUnsetWait \/ DeviceSync \/ TransportDrop

SpecInit == InitInit /\ [][NextInit]_vars

\* the values written to a register, in the order of the writes
Written(log, reg) ==
    LET w == SelectSeq(log, LAMBDA e : e.op = "write" /\ e.reg = reg)
    IN [i \in 1..Len(w) |-> w[i].val]
\* the position in the log of the k-th write to a register, 0 if there is none
RECURSIVE WritePos(_, _, _, _)
WritePos(log, reg, k, from) ==
    IF from > Len(log) THEN 0
    ELSE IF log[from].op = "write" /\ log[from].reg = reg
    THEN IF k = 1 THEN from ELSE WritePos(log, reg, k - 1, from + 1)
    ELSE WritePos(log, reg, k, from + 1)
\* the positions of the accesses of one kind to one register
Positions(log, op, reg) ==
    {i \in 1..Len(log) : log[i].op = op /\ log[i].reg = reg}

\* C11: a constructor that has just returned a driver has written to status,
\* in this order, 0, ACKNOWLEDGE, ACKNOWLEDGE|DRIVER,
\* ACKNOWLEDGE|DRIVER|FEATURES_OK and, last, the same with DRIVER_OK; the
\* device features are read and the
\* driver features written between the third and the fourth write; a legacy
\* device gets PAGE_SIZE written to guest_page_size after the fourth write
\* and a modern one gets no such write; every queue register is written
\* before DRIVER_OK.
C11_HandshakeOrder ==
    (d_pc = "built" /\ drv.unset = 0) =>
        /\ Written(io_log, "status") = <<0, 1, 3, 11, 15>>
        /\ \A i \in Positions(io_log, "read", "device_features")
                    \cup Positions(io_log, "write", "driver_features") :
               /\ WritePos(io_log, "status", 3, 1) < i
               /\ i < WritePos(io_log, "status", 4, 1)
        /\ Positions(io_log, "read", "device_features") # {}
        /\ Positions(io_log, "write", "driver_features") # {}
        /\ Written(io_log, "guest_page_size") =
              IF regs.version = 1 THEN << 4096 >> ELSE << >>
        /\ \A i \in Positions(io_log, "write", "guest_page_size") :
               WritePos(io_log, "status", 4, 1) < i
        /\ \A i \in 1..Len(io_log) :
               (io_log[i].op = "write" /\ io_log[i].reg \in Banked) =>
                   i < WritePos(io_log, "status", 5, 1)
        /\ io_log[Len(io_log)] = [op |-> "write", reg |-> "status", val |-> 15]

\* the features the device of the state offers, as one 64-bit set
Offered == regs.device_features[0] \cup shl32(regs.device_features[1])

\* C12: once a constructor has run the negotiation, the device features were
\* read as two words (device_features_sel written 0, then 1, a read after
\* each), the driver features were written as two words (driver_features_sel
\* 0, then 1, a write after each), the value the device holds is the
\* intersection of what it offered with what the driver supports, and a
\* driver built after the device kept FEATURES_OK holds that same
\* intersection as its negotiated features.
C12_NegotiationIsIntersection ==
    (d_pc # "idle") =>
        LET negotiated == Offered \cap SUPPORTED_FEATURES(drv.kind)
        IN /\ Written(io_log, "device_features_sel") = <<0, 1>>
           /\ Written(io_log, "driver_features_sel") = <<0, 1>>
           /\ Cardinality(Positions(io_log, "read", "device_features")) = 2
           /\ \A i \in Positions(io_log, "read", "device_features") :
                  /\ io_log[i - 1].op = "write"
                  /\ io_log[i - 1].reg = "device_features_sel"
           /\ Written(io_log, "driver_features") =
                  << as_u32(negotiated), shr32(negotiated) >>
           /\ driver_written(regs) = negotiated
           /\ (d_pc = "built" /\ HasFlag(regs.status, FEATURES_OK)) =>
                  (drv.features = negotiated)

\* C13: when the device drops FEATURES_OK (the driver did not accept a
\* feature the device insists on), the constructor returns an error,
\* InvalidParam from the drivers that call begin_init, and has written no
\* queue register and no status value holding DRIVER_OK.
C13_RejectedFeaturesFailConstruction ==
    (d_pc # "idle" /\ ~(regs.required \subseteq
                           Offered \cap SUPPORTED_FEATURES(drv.kind))) =>
        /\ d_pc = "failed"
        /\ (drv.kind # "blk") => (d_ret.tag = "InvalidParam")
        /\ \A i \in 1..Len(io_log) :
               io_log[i].op = "write" =>
                   /\ io_log[i].reg \notin Banked \cup {"queue_sel"}
                   /\ (io_log[i].reg = "status") =>
                          ~HasFlag(io_log[i].val, DRIVER_OK)

\* the log entry e is a write of val to reg
IsWrite(e, reg, val) == e.op = "write" /\ e.reg = reg /\ e.val = val

\* the first position after p where queue_ready was read as 0, 0 if none
RECURSIVE ZeroReadback(_, _)
ZeroReadback(log, p) ==
    IF p >= Len(log) THEN 0
    ELSE IF /\ log[p + 1].op = "read" /\ log[p + 1].reg = "queue_ready"
            /\ log[p + 1].val = 0
    THEN p + 1
    ELSE ZeroReadback(log, p + 1)

\* the clearing writes of the modern queue_unset, in their order
ClearRegs == << "queue_num", "queue_desc_low", "queue_desc_high",
                "queue_driver_low", "queue_driver_high",
                "queue_device_low", "queue_device_high" >>

\* C14: after a modern queue_unset has written 0 to queue_ready, the
\* transport does nothing but read queue_ready back until a read has
\* returned 0: while none has, queue_unset has not returned and has cleared
\* nothing; the writes of 0 to queue_num, queue_desc, queue_driver and
\* queue_device follow that readback, and only then does the call return.
C14_UnsetWaitsForReadback ==
    \A p \in 1..Len(io_log) :
        (io_log[p].op = "write" /\ io_log[p].reg = "queue_ready"
            /\ io_log[p].val = 0) =>
            LET j == ZeroReadback(io_log, p)
            IN /\ \A i \in (p + 1)..(IF j = 0 THEN Len(io_log) ELSE j) :
                      io_log[i].op = "read" /\ io_log[i].reg = "queue_ready"
               /\ (j = 0) => (d_pc = "unset_wait")
               /\ (j # 0) =>
                      /\ Len(io_log) >= j + Len(ClearRegs)
                      /\ \A k \in 1..Len(ClearRegs) :
                             IsWrite(io_log[j + k], ClearRegs[k], 0)

\* a driver on a modern device was dropped after queue_unset had read
\* queue_ready back as 1 before it read 0
C14_Witness ==
    /\ d_pc = "dropped" /\ regs.version = MODERN_VERSION
    /\ \E i \in Positions(io_log, "read", "queue_ready") :
           /\ io_log[i].val = 1
           /\ io_log[i - 1].op = "read" /\ io_log[i - 1].reg = "queue_ready"
    /\ \A q \in QueueIdxs : regs.queue_ready[q] = 0

\* C15: once the driver is dropped, the last access the transport made is
\* the write of 0 to status; before it, the console and the GPU driver have
\* unset both queues (queue_num and queue_pfn written 0 on a legacy device;
\* queue_ready read back 0 and queue_num and the three addresses written 0 on
\* a modern one). A constructor that fails after it took the transport ends
\* with the same write.
C15_DropResetsLast ==
    /\ (d_pc = "dropped") =>
          /\ IsWrite(io_log[Len(io_log)], "status", 0)
          /\ regs.status = 0
          /\ (drv.kind \in UnsettingDrivers) =>
                \A q \in QueueIdxs :
                    /\ regs.queue_num[q] = 0
                    /\ regs.queue_pfn[q] = 0 /\ regs.queue_ready[q] = 0
                    /\ regs.queue_desc_low[q] = 0 /\ regs.queue_desc_high[q] = 0
                    /\ regs.queue_driver_low[q] = 0 /\ regs.queue_driver_high[q] = 0
                    /\ regs.queue_device_low[q] = 0 /\ regs.queue_device_high[q] = 0
                    /\ \E i \in 1..(Len(io_log) - 1) :
                           /\ IsWrite(io_log[i], "queue_sel", q)
                           /\ io_log[i + 1].op = "write"
                           /\ io_log[i + 1].reg \in {"queue_num", "queue_ready"}
                           /\ io_log[i + 1].val = 0
    /\ (d_pc = "failed" /\ drv.kind # "blk") =>
          IsWrite(io_log[Len(io_log)], "status", 0)

\* a GPU driver built on a modern device was dropped
C15_Witness ==
    /\ d_pc = "dropped" /\ drv.kind = "gpu" /\ regs.version = MODERN_VERSION
    /\ Written(io_log, "queue_ready") = <<1, 1, 0, 0>>

-----------------------------------------------------------------------------
(* The block driver's requests against a device: SpecBlk *)

\* From<BlkRespStatus> for VirtIoResult<()> (block/ty.rs:115-125)
BlkRespStatus_into(status) ==
    CASE status = OK -> Ok(0)
      [] status = IO_ERR -> Err("IoError")
      [] status = UNSUPPORTED -> Err("Unsupported")
      [] status = NOT_READY -> Err("NotReady")
      [] OTHER -> Err("IoError")

\* the values the device may leave in the status byte: the four named ones
\* (NOT_READY when it writes nothing) and one that has no name
BlkStatuses == {OK, IO_ERR, UNSUPPORTED, NOT_READY, 4}

\* the value `resp` has when the driver reads it after the pop. resp is a
\* local initialised to NOT_READY whose address was handed to the device as
\* an integer; the read is not volatile and races with the device's write, so
\* the build may deliver the byte in memory or the value the local was
\* initialised with (block/mod.rs:84, 108-109)
resp_read(in_memory) == {in_memory, NOT_READY}

BlkOps == {"read_blocks", "write_blocks", "flush"}

BlkChain(op) ==
    CASE op = "read_blocks" -> BlkReadChain
      [] op = "write_blocks" -> BlkWriteChain
      [] op = "flush" -> BlkRequestChain

InitBlk ==
    /\ IsQueue(FreshQueue(BLK_QUEUE_SIZE))
    /\ live = {} /\ held = {} /\ adds_done = 0
    /\ last_call = [op |-> "new", arg |-> 0, ret |-> Ok(0), want |-> {}]
    /\ IdleWait /\ IdleMmio /\ IdleNew
    /\ \E debug \in BOOLEAN :
          drv = [kind |-> "blk", features |-> SUPPORTED_FEATURES("blk"),
                 debug |-> debug, op |-> "none", token |-> -1,
                 resp |-> NOT_READY, calls |-> 0]
    /\ d_pc = "ready"
    /\ d_ret = [tag |-> "none", val |-> 0]

\* read_blocks, write_blocks and flush up to their wait loop
\* (block/mod.rs:76-103, 112-139, 149-168): the chain is pushed and the
\* device notified; flush without the FLUSH feature returns at once
BlkSubmit(op) ==
    /\ d_pc \in {"ready", "returned"}
    /\ drv.calls < MaxReqs
    /\ IF op = "flush" /\ FLUSH \notin drv.features
       THEN /\ d_ret' = Ok(0)
            /\ d_pc' = "returned"
            /\ drv' = [drv EXCEPT !.op = op, !.token = -1, !.calls = @ + 1]
            /\ UNCHANGED <<qvars, live, mvars>>
       ELSE LET r == add(Q, BlkChain(op))
                io == write([regs |-> regs, log |-> io_log], "queue_notify", 0)
            IN IF r.ret.tag # "Ok"
               THEN /\ d_ret' = r.ret
                    /\ d_pc' = "returned"
                    /\ drv' = [drv EXCEPT !.op = op, !.token = -1, !.calls = @ + 1]
                    /\ UNCHANGED <<qvars, live, mvars>>
               ELSE /\ SetQueue(r.q)
                    /\ live' = {[pos |-> avail_ring.idx, head |-> r.ret.val,
                                 idxs |-> Range(SubSeq(avail_desc_index, 1,
                                                       Len(BlkChain(op)))),
                                 upos |-> -1, len |-> 0]}
                    /\ regs' = io.regs /\ io_log' = io.log
                    /\ drv' = [drv EXCEPT !.op = op, !.token = r.ret.val,
                                          !.resp = NOT_READY, !.calls = @ + 1]
                    /\ d_pc' = "wait"
                    /\ UNCHANGED d_ret
    /\ UNCHANGED <<held, adds_done, last_call, wvars, nvars>>

\* the device completes the request: it leaves a value in the status byte,
\* writes the used element and increments used.idx
BlkDevice(status) ==
    /\ d_pc = "wait"
    /\ \E c \in live :
          /\ c.upos = -1
          /\ SetQueue(device_use(Q, c.head, 1))
          /\ live' = {[c EXCEPT !.upos = used_ring.idx, !.len = 1]}
    /\ drv' = [drv EXCEPT !.resp = status]
    /\ UNCHANGED <<held, adds_done, last_call, wvars, mvars, nvars, d_pc, d_ret>>

\* the rest of the call once the wait loop is left (block/mod.rs:104-109,
\* 140-144, 169-179): pop, debug_assert_eq!(resp, OK), resp.into()
BlkFinish ==
    /\ d_pc = "wait"
    /\ can_pop(Q, drv.token)
    /\ LET r == pop_used(Q, drv.token)
       IN /\ SetQueue(r.q)
          /\ IF r.ret.tag # "Ok"
             THEN d_ret' = r.ret /\ d_pc' = "returned" /\ UNCHANGED live
             ELSE /\ live' = {}
                  /\ \E seen \in resp_read(drv.resp) :
                        IF drv.debug /\ seen # OK
                        THEN d_ret' = Err("panic") /\ d_pc' = "panicked"
                        ELSE d_ret' = BlkRespStatus_into(seen) /\ d_pc' = "returned"
    /\ UNCHANGED <<held, adds_done, last_call, wvars, mvars, nvars, drv>>

NextBlk ==
    \/ \E op \in BlkOps : BlkSubmit(op)
    \/ \E status \in BlkStatuses : BlkDevice(status)
    \/ BlkFinish
    \/ \E f \in {0, NO_NOTIFY} : DeviceSetFlags(f)

SpecBlk == InitBlk /\ [][NextBlk]_vars

\* C16: a block call that has popped its request ends by returning a value
\* to the caller, which the status byte the device left determines: 0 gives
\* success, 1 IoError, 2 Unsupported and 3, the sentinel, IoError; the call
\* published its request once.
C16_StatusMapsToResult ==
    (d_pc \in {"returned", "panicked"} /\ drv.token # -1) =>
        /\ d_pc = "returned"
        /\ (drv.resp = OK) => (d_ret = Ok(0))
        /\ (drv.resp = IO_ERR) => (d_ret = Err("IoError"))
        /\ (drv.resp = UNSUPPORTED) => (d_ret = Err("Unsupported"))
        /\ (drv.resp = NOT_READY) => (d_ret = Err("IoError"))
        /\ avail_ring.idx = drv.calls

-----------------------------------------------------------------------------
(* The console driver receiving against a device: SpecConsole *)

\* the bytes the host may send
Bytes == {10, 65}

\* Option<u16>: -1 stands for None
None == -1

InitConsole ==
    /\ IsQueue(FreshQueue(CONSOLE_QUEUE_SIZE))
    /\ live = {} /\ held = {} /\ adds_done = 0
    /\ last_call = [op |-> "new", arg |-> 0, ret |-> Ok(0), want |-> {}]
    /\ IdleWait /\ IdleMmio /\ IdleNew
    /\ drv = [kind |-> "console", queue_buf_rx |-> <<>>, cursor |-> 0,
              pending_len |-> 0, receive_token |-> None, op |-> "none",
              calls |-> 0]
    /\ d_pc = "ready"
    /\ d_ret = [tag |-> "none", val |-> 0]

\* finish_receive (console/mod.rs:94-114) on driver fields d and queue q
finish_receive(d, q) ==
    IF d.receive_token # None /\ d.receive_token = peek_used(q)
    THEN LET r == pop_used(q, d.receive_token)
         IN IF r.ret.tag # "Ok" THEN [d |-> d, q |-> r.q, ret |-> r.ret]
            ELSE IF r.ret.val = 0 THEN [d |-> d, q |-> r.q, ret |-> Err("panic")]
            ELSE [d |-> [d EXCEPT !.cursor = 0, !.pending_len = r.ret.val,
                                  !.receive_token = None],
                  q |-> r.q, ret |-> Ok(1)]
    ELSE [d |-> d, q |-> q, ret |-> Ok(0)]

\* recv(pop) (console/mod.rs:119-130). With nothing pending it returns
\* Ok(None), written Ok(-1); poll_retrieve is called only after a byte was
\* taken, and then it posts only when that byte was the last one
ConsoleRecv(pop) ==
    /\ d_pc \in {"ready", "returned"}
    /\ drv.calls < MaxCalls
    /\ LET f == finish_receive(drv, Q)
           d == [f.d EXCEPT !.op = "recv", !.calls = @ + 1]
       IN /\ SetQueue(f.q)
          /\ IF f.ret.tag # "Ok"
             THEN /\ d_ret' = f.ret /\ drv' = d /\ d_pc' = "returned"
                  /\ UNCHANGED wvars
             ELSE IF d.cursor = d.pending_len
             THEN /\ d_ret' = Ok(None) /\ drv' = d /\ d_pc' = "returned"
                  /\ UNCHANGED wvars
             ELSE /\ d_ret' = Ok(d.queue_buf_rx[d.cursor + 1])
                  /\ IF ~pop
                     THEN drv' = d /\ d_pc' = "returned" /\ UNCHANGED wvars
                     ELSE /\ drv' = [d EXCEPT !.cursor = @ + 1]
                          /\ IF d.receive_token = None /\ d.cursor + 1 = d.pending_len
                             THEN /\ d_pc' = "recv_poll"
                                  /\ w_pc' = "add" /\ w_class' = "console_recv"
                                  /\ w_chain' = ConsoleRecvChain
                                  /\ UNCHANGED w_token
                             ELSE d_pc' = "returned" /\ UNCHANGED wvars
    /\ UNCHANGED <<gvars, mvars, nvars>>

\* recv_block is called (console/mod.rs:132): it enters its loop
RecvBlockCall ==
    /\ d_pc \in {"ready", "returned"}
    /\ drv.calls < MaxCalls
    /\ drv' = [drv EXCEPT !.op = "recv_block", !.calls = @ + 1]
    /\ d_pc' = "finish_receive"
    /\ UNCHANGED <<qvars, gvars, wvars, mvars, nvars, d_ret>>

\* self.finish_receive()? in the loop (console/mod.rs:134)
RecvBlockFinishReceive ==
    /\ d_pc = "finish_receive"
    /\ LET f == finish_receive(drv, Q)
       IN /\ SetQueue(f.q)
          /\ drv' = f.d
          /\ IF f.ret.tag # "Ok"
             THEN d_ret' = f.ret /\ d_pc' = "returned"
             ELSE d_pc' = "poll_retrieve" /\ UNCHANGED d_ret
    /\ UNCHANGED <<gvars, wvars, mvars, nvars>>

\* self.poll_retrieve()? up to its add_notify_wait_pop (console/mod.rs:68-80)
RecvBlockPollRetrieve ==
    /\ d_pc = "poll_retrieve"
    /\ IF drv.receive_token = None /\ drv.cursor = drv.pending_len
       THEN /\ d_pc' = "poll_wait"
            /\ w_pc' = "add" /\ w_class' = "console_recv"
            /\ w_chain' = ConsoleRecvChain
            /\ UNCHANGED w_token
       ELSE d_pc' = "check" /\ UNCHANGED wvars
    /\ UNCHANGED <<qvars, gvars, mvars, nvars, drv, d_ret>>

\* poll_retrieve once add_notify_wait_pop has returned (console/mod.rs:78-88):
\* the len is logged and receive_token becomes Some(0)
PollRetrieveEnd ==
    /\ d_pc \in {"poll_wait", "recv_poll"}
    /\ w_pc = "done"
    /\ w_pc' = "idle"
    /\ IF last_call.ret.tag # "Ok"
       THEN d_ret' = last_call.ret /\ d_pc' = "returned" /\ UNCHANGED drv
       ELSE /\ drv' = [drv EXCEPT !.receive_token = 0]
            /\ d_pc' = IF d_pc = "poll_wait" THEN "check" ELSE "returned"
            /\ UNCHANGED d_ret
    /\ UNCHANGED <<qvars, gvars, w_class, w_token, w_chain, mvars, nvars>>

\* the end of the loop body (console/mod.rs:136-142)
RecvBlockCheck ==
    /\ d_pc = "check"
    /\ IF drv.cursor = drv.pending_len
       THEN d_pc' = "finish_receive" /\ UNCHANGED <<drv, d_ret>>
       ELSE /\ d_ret' = Ok(drv.queue_buf_rx[drv.cursor + 1])
            /\ drv' = [drv EXCEPT !.cursor = @ + 1]
            /\ d_pc' = "returned"
    /\ UNCHANGED <<qvars, gvars, wvars, mvars, nvars>>

\* the device completes the posted receive buffer with the bytes data: it
\* writes them into the buffer, then the used element, then used.idx
ConsoleDevice(data) ==
    /\ \E c \in live :
          /\ c.upos = -1
          /\ SetQueue(device_use(Q, c.head, Len(data)))
          /\ live' = (live \ {c}) \cup
                         {[c EXCEPT !.upos = used_ring.idx, !.len = Len(data)]}
    /\ drv' = [drv EXCEPT !.queue_buf_rx = data]
    /\ UNCHANGED <<held, adds_done, last_call, wvars, mvars, nvars, d_pc, d_ret>>

NextConsole ==
    \/ \E pop \in BOOLEAN : ConsoleRecv(pop)
    \/ RecvBlockCall
    \/ RecvBlockFinishReceive
    \/ RecvBlockPollRetrieve
    \/ WaitAdd
    \/ WaitNotify
    \/ WaitSpin
    \/ WaitPop
    \/ PollRetrieveEnd
    \/ RecvBlockCheck
    \/ \E len \in 1..MaxLen : \E data \in [1..len -> Bytes] : ConsoleDevice(data)
    \/ \E f \in {0, NO_NOTIFY} : DeviceSetFlags(f)

SpecConsole == InitConsole /\ [][NextConsole]_vars

\* the device has completed a receive buffer with at least one byte and the
\* driver has read its used element
ReceiveConsumed ==
    /\ used_ring.idx > 0
    /\ last_seen_used = used_ring.idx
    /\ Len(drv.queue_buf_rx) >= 1

\* C18: recv_block, in safety form. Once the device has completed the posted
\* receive buffer with len >= 1 and the driver has read that used element,
\* recv_block is not left in its loop with nothing to return and nothing to
\* wait for: the bytes are pending (cursor < pending_len), or the call has
\* returned the first byte the device wrote.
C18_RecvBlockReturns ==
    (drv.op = "recv_block" /\ ReceiveConsumed) =>
        \/ drv.cursor < drv.pending_len
        \/ d_pc = "returned" /\ d_ret = Ok(drv.queue_buf_rx[1])

\* C31: whenever poll_retrieve is not running, at most one receive chain is
\* published and not popped, and receive_token is Some(t) exactly when that
\* chain's token is t.
C31_ReceiveTokenIsOutstanding ==
    (d_pc \notin {"poll_wait", "recv_poll"}) =>
        /\ Cardinality(live) <= 1
        /\ (drv.receive_token # None) <=>
               (\E c \in live : c.head = drv.receive_token)

\* C32: once the driver has consumed the used element of a receive the
\* device completed with k bytes, these k bytes are what is pending: pending_len
\* is k, no request is recorded as outstanding, and 0 <= cursor <= pending_len.
C32_CompletionBecomesPending ==
    (last_seen_used = used_ring.idx /\ used_ring.idx > 0) =>
        /\ drv.pending_len = Len(drv.queue_buf_rx)
        /\ drv.cursor <= drv.pending_len
        /\ d_pc \notin {"poll_wait", "recv_poll"} => drv.receive_token = None

-----------------------------------------------------------------------------
(* The input driver and its event queue against a device: SpecInput *)

\* the event slots the device completes in the explored runs
DeviceSlots == (0..MaxSlot) \cup {INPUT_QUEUE_SIZE - 1}

\* pop_pending_event (input/mod.rs:70-112) on the event queue q, the
\* transport io and the event buffer buf
pop_pending_event(q, io, buf) ==
    Bind(peek_used(q), LAMBDA token :
    IF token = None THEN [q |-> q, io |-> io, ret |-> Ok(None), token |-> None]
    ELSE
    Bind(pop_used(q, token), LAMBDA p :
    IF p.ret.tag # "Ok" THEN [q |-> p.q, io |-> io, ret |-> p.ret, token |-> None]
    ELSE
    Bind(add(p.q, << EventDescriptor(token) >>), LAMBDA a :
    IF a.ret.tag # "Ok" THEN [q |-> a.q, io |-> io, ret |-> a.ret, token |-> None]
    ELSE IF a.ret.val # token
    THEN [q |-> a.q, io |-> io, ret |-> Err("panic"), token |-> a.ret.val]
    ELSE [q |-> a.q,
          io |-> IF should_notify(a.q) THEN notify(io, 0) ELSE io,
          ret |-> Ok(buf[token]), token |-> a.ret.val])))

InitInput ==
    /\ IsQueue(NoQueue)
    /\ live = {} /\ held = {} /\ adds_done = 0
    /\ last_call = [op |-> "none", arg |-> 0, ret |-> Ok(0), want |-> {}]
    /\ IdleWait /\ IdleNew
    /\ \E version \in {LEGACY_VERSION, MODERN_VERSION}, num_max \in DeviceMaxSizes :
          regs = DeviceRegs(MAGIC, version, 18, num_max, [i \in QueueIdxs |-> 0])
    /\ io_log = <<>>
    /\ drv = [kind |-> "input",
              event_buf |-> [i \in 0..(INPUT_QUEUE_SIZE - 1) |-> 0],
              owned |-> {}, done |-> <<>>, got |-> <<>>]
    /\ d_pc = "new"
    /\ d_ret = [tag |-> "none", val |-> 0]

\* VirtIOInput::new (input/mod.rs:34-62); the device owns every slot posted
InputNew ==
    /\ d_pc = "new"
    /\ LET r == Driver_new("input", regs.version, [regs |-> regs, log |-> io_log])
       IN /\ regs' = r.io.regs /\ io_log' = r.io.log
          /\ d_ret' = r.ret
          /\ SetQueue(r.q0)
          /\ IF r.ret.tag = "Ok"
             THEN /\ d_pc' = "ready"
                  /\ drv' = [drv EXCEPT !.owned = 0..(INPUT_QUEUE_SIZE - 1)]
                  /\ adds_done' = INPUT_QUEUE_SIZE
             ELSE /\ d_pc' = IF r.ret.tag = "panic" THEN "panicked" ELSE "failed"
                  /\ UNCHANGED <<drv, adds_done>>
    /\ UNCHANGED <<live, held, last_call, wvars, nvars>>

\* the device reports an event in a slot it owns: it writes the record (the
\* n-th event is written as n), then the used element, then used.idx
InputDevice(slot) ==
    /\ d_pc = "ready"
    /\ slot \in drv.owned \cap DeviceSlots
    /\ Len(drv.done) < MaxEvents
    /\ SetQueue(device_use(Q, slot, 8))
    /\ drv' = [drv EXCEPT !.event_buf[slot] = Len(drv.done) + 1,
                          !.owned = @ \ {slot},
                          !.done = Append(@, [slot |-> slot, val |-> Len(drv.done) + 1])]
    /\ UNCHANGED <<gvars, wvars, mvars, nvars, d_pc, d_ret>>

\* a call of pop_pending_event
PopPendingEvent ==
    /\ d_pc = "ready"
    /\ LET r == pop_pending_event(Q, [regs |-> regs, log |-> io_log], drv.event_buf)
       IN /\ SetQueue(r.q)
          /\ regs' = r.io.regs /\ io_log' = r.io.log
          /\ d_ret' = r.ret
          /\ d_pc' = IF r.ret.tag = "panic" THEN "panicked" ELSE "ready"
          /\ drv' = IF r.token = None THEN drv
                    ELSE [drv EXCEPT !.owned = @ \cup {r.token},
                                     !.got = IF r.ret.tag = "Ok"
                                             THEN Append(@, [slot |-> r.token,
                                                             val |-> r.ret.val])
                                             ELSE @]
    /\ UNCHANGED <<gvars, wvars, nvars>>

NextInput ==
    \/ InputNew
    \/ \E slot \in DeviceSlots : InputDevice(slot)
    \/ PopPendingEvent
    \/ \E f \in {0, NO_NOTIFY} : d_pc = "ready" /\ DeviceSetFlags(f)

SpecInput == InitInput /\ [][NextInput]_vars

\* the ids of the used elements the driver has not read yet
UnreadIds ==
    {used_ring.ring[p % INPUT_QUEUE_SIZE].id : p \in last_seen_used..(used_ring.idx - 1)}

\* C19: new() ends with every event slot posted, slot i under token i, and
\* so does every pop_pending_event: the free list is empty, descriptor i
\* describes event slot i, each of the 32 slots is held by the device or
\* waits completed in the used ring, the slot just popped was published
\* again under the token it was popped with, and neither assertion
\* (token == i in new, new_token == token in pop_pending_event) has failed.
C19_AllSlotsPosted ==
    /\ d_pc # "panicked"
    /\ (d_pc = "ready") =>
          /\ avail_desc_index = <<>>
          /\ \A i \in 0..(INPUT_QUEUE_SIZE - 1) : descriptor_table[i] = EventDescriptor(i)
          /\ drv.owned \cup UnreadIds = 0..(INPUT_QUEUE_SIZE - 1)
          /\ Cardinality(drv.owned) + (used_ring.idx - last_seen_used) = INPUT_QUEUE_SIZE
          /\ avail_ring.idx = INPUT_QUEUE_SIZE + Len(drv.got)
          /\ (drv.got = <<>>) =>
                \A i \in 0..(INPUT_QUEUE_SIZE - 1) : avail_ring.ring[i] = i
          /\ (drv.got # <<>>) =>
                avail_ring.ring[(avail_ring.idx - 1) % INPUT_QUEUE_SIZE] =
                    drv.got[Len(drv.got)].slot

\* the device completed the last slot and then slot 0, and both were popped
\* and posted again
C19_Witness ==
    /\ d_pc = "ready"
    /\ Len(drv.got) = 2
    /\ drv.got[1].slot = INPUT_QUEUE_SIZE - 1 /\ drv.got[2].slot = 0
    /\ drv.owned = 0..(INPUT_QUEUE_SIZE - 1)

\* C20: the events pop_pending_event has returned are, in order, the first
\* events the device reported, each with the slot and the record the device
\* wrote; a call made while a used element is unread returns the next one,
\* and a call made while none is unread returns None and leaves the queue,
\* the registers and the driver's fields as they were.
C20_EventsOnceInOrder ==
    [][/\ Len(drv'.got) <= Len(drv'.done)
       /\ drv'.got = SubSeq(drv'.done, 1, Len(drv'.got))
       /\ PopPendingEvent =>
             IF peek_used(Q) = None
             THEN d_ret' = Ok(None) /\ UNCHANGED <<qvars, mvars, drv>>
             ELSE /\ d_ret' = Ok(drv.done[Len(drv.got) + 1].val)
                  /\ Len(drv'.got) = Len(drv.got) + 1]_vars

\* three events were reported in the slots 1, 31 and 1 again, all three
\* were returned and the last call returned None
C20_Witness ==
    /\ d_pc = "ready"
    /\ Len(drv.got) = 3
    /\ drv.got[1].slot = 1 /\ drv.got[2].slot = INPUT_QUEUE_SIZE - 1
    /\ drv.got[3].slot = 1
    /\ d_ret = Ok(None)

-----------------------------------------------------------------------------
(* The net driver with its own receive buffers against a device: SpecNet *)

\* a subtraction that wraps below 0 instead of failing
sub_wraps(a, b) == (a - b + U16) % U16

\* usize::checked_sub: -1 stands for None
checked_sub(a, b) == IF a >= b THEN a - b ELSE None

\* the receive buffer of slot i, of buf_len bytes
RxDescriptor(i, buf_len) == Descriptor_new(4096 + i, buf_len, WRITE)

\* receive_begin (net/dev_raw.rs:192-200) for the buffer of slot i
receive_begin(q, io, i, buf_len) ==
    IF buf_len < MIN_BUFFER_LEN THEN [q |-> q, io |-> io, ret |-> Err("InvalidParam")]
    ELSE Bind(add(q, << RxDescriptor(i, buf_len) >>), LAMBDA a :
         IF a.ret.tag # "Ok" THEN [q |-> a.q, io |-> io, ret |-> a.ret]
         ELSE [q |-> a.q,
               io |-> IF should_notify(a.q) THEN notify(io, 0) ELSE io,
               ret |-> a.ret])

\* receive_complete (net/dev_raw.rs:221-225): the pair it returns is
\* (hdr_len, ret.val)
receive_complete(q, token) ==
    Bind(pop_used(q, token), LAMBDA p :
    IF p.ret.tag # "Ok" THEN [q |-> p.q, ret |-> p.ret, hdr_len |-> 0]
    ELSE Bind(checked_sub(p.ret.val, NET_HDR_SIZE), LAMBDA packet_len :
         IF packet_len = None
         THEN [q |-> p.q, ret |-> Err("IoError"), hdr_len |-> 0]
         ELSE [q |-> p.q, ret |-> Ok(packet_len), hdr_len |-> NET_HDR_SIZE]))

\* can_recv of the raw driver: the token of the oldest unread used element
can_recv(q) == peek_used(q)

\* the loop of VirtIONet::new that posts every receive buffer
\* (net/mod.rs:40-45)
RECURSIVE post_rx_buffers(_, _, _, _)
post_rx_buffers(q, io, i, buf_len) ==
    IF i = SIZE_of(q.descriptor_table) THEN [q |-> q, io |-> io, ret |-> Ok(0)]
    ELSE Bind(receive_begin(q, io, i, buf_len), LAMBDA b :
         IF b.ret.tag # "Ok" THEN b
         ELSE IF b.ret.val # i THEN [q |-> b.q, io |-> b.io, ret |-> Err("panic")]
         ELSE post_rx_buffers(b.q, b.io, i + 1, buf_len))

\* VirtIONet::new (net/mod.rs:35-48); an error after the raw driver was built
\* drops it, and its transport with it
VirtIONet_new(version, io, buf_len) ==
    Bind(Driver_new("net", version, io), LAMBDA inner :
    IF inner.ret.tag # "Ok" THEN inner
    ELSE Bind(post_rx_buffers(inner.q0, inner.io, 0, buf_len), LAMBDA p :
         IF p.ret.tag = "Ok"
         THEN Built(Ok(0), p.io, inner.features, p.q, inner.q1)
         ELSE Built(p.ret,
                    IF p.ret.tag = "panic" THEN p.io ELSE MmioTransport_drop(p.io),
                    inner.features, p.q, inner.q1)))

\* the receive slots the device completes in the explored runs, the lengths
\* it reports and the buffer sizes the driver is built with
NetSlots == (0..MaxSlot) \cup {NET_QUEUE_SIZE - 1}
PacketLens == {9, 10, 74}
BufLens == {1525, 1526}

InitNet ==
    /\ IsQueue(NoQueue)
    /\ live = {} /\ held = {} /\ adds_done = 0
    /\ last_call = [op |-> "none", arg |-> 0, ret |-> Ok(0), want |-> {}]
    /\ IdleWait /\ IdleNew
    /\ \E version \in {LEGACY_VERSION, MODERN_VERSION}, num_max \in DeviceMaxSizes :
          regs = DeviceRegs(MAGIC, version, 1, num_max, [i \in QueueIdxs |-> 0])
    /\ io_log = <<>>
    /\ drv = [kind |-> "net", owned |-> {}, done |-> <<>>, got |-> <<>>]
    /\ d_pc = "new"
    /\ d_ret = [tag |-> "none", val |-> 0]

\* VirtIONet::new(transport, buf_len); the device owns every buffer posted
NetNew(buf_len) ==
    /\ d_pc = "new"
    /\ LET r == VirtIONet_new(regs.version, [regs |-> regs, log |-> io_log], buf_len)
       IN /\ regs' = r.io.regs /\ io_log' = r.io.log
          /\ d_ret' = r.ret
          /\ SetQueue(r.q0)
          /\ IF r.ret.tag = "Ok"
             THEN /\ d_pc' = "ready"
                  /\ drv' = [drv EXCEPT !.owned = 0..(NET_QUEUE_SIZE - 1)]
                  /\ adds_done' = NET_QUEUE_SIZE
             ELSE /\ d_pc' = IF r.ret.tag = "panic" THEN "panicked" ELSE "failed"
                  /\ UNCHANGED <<drv, adds_done>>
    /\ UNCHANGED <<live, held, last_call, wvars, nvars>>

\* the device receives a frame into a buffer it owns and reports len bytes
NetDevice(slot, len) ==
    /\ d_pc = "ready"
    /\ slot \in drv.owned \cap NetSlots
    /\ Len(drv.done) < MaxEvents
    /\ SetQueue(device_use(Q, slot, len))
    /\ drv' = [drv EXCEPT !.owned = @ \ {slot},
                          !.done = Append(@, [slot |-> slot, len |-> len])]
    /\ UNCHANGED <<gvars, wvars, mvars, nvars, d_pc, d_ret>>

\* VirtIONet::receive (net/mod.rs:85-95); last_call is its receive_complete
NetReceive ==
    /\ d_pc = "ready"
    /\ IF can_recv(Q) = None
       THEN /\ d_ret' = Err("NotReady")
            /\ UNCHANGED <<qvars, drv, last_call>>
       ELSE LET token == can_recv(Q)
                r == receive_complete(Q, token)
            IN /\ SetQueue(r.q)
               /\ d_ret' = r.ret
               /\ last_call' = [op |-> "receive_complete", arg |-> token,
                                ret |-> r.ret, hdr_len |-> r.hdr_len,
                                want |-> {drv.done[Len(drv.got) + 1].len}]
               /\ drv' = [drv EXCEPT !.got = Append(@, [slot |-> token,
                                                        ret |-> r.ret])]
    /\ UNCHANGED <<live, held, adds_done, wvars, mvars, nvars, d_pc>>

NextNet ==
    \/ \E buf_len \in BufLens : NetNew(buf_len)
    \/ \E slot \in NetSlots, len \in PacketLens : NetDevice(slot, len)
    \/ NetReceive
    \/ \E f \in {0, NO_NOTIFY} : d_pc = "ready" /\ DeviceSetFlags(f)

SpecNet == InitNet /\ [][NextNet]_vars

\* C21: a receive_complete on a completion for which the device reported L
\* bytes returns (10, L - 10) when L >= 10 and the error IoError when
\* L < 10; it never returns a length for L < 10.
C21_ReceiveCompleteLengths ==
    (last_call.op = "receive_complete") =>
        \A L \in last_call.want :
            IF L >= 10
            THEN last_call.ret = Ok(L - 10) /\ last_call.hdr_len = 10
            ELSE last_call.ret = Err("IoError")

\* a completion of 9 bytes was refused after one of 74 bytes had been
\* returned as (10, 64)
C21_Witness ==
    /\ last_call.op = "receive_complete"
    /\ last_call.want = {9} /\ last_call.ret = Err("IoError")
    /\ Len(drv.got) = 2 /\ drv.got[1].ret = Ok(64)

\* the receive-queue descriptors that hold a buffer the device owns or has
\* completed and the driver has not read
SlotsInFlight ==
    drv.owned \cup
    {used_ring.ring[p % NET_QUEUE_SIZE].id : p \in last_seen_used..(used_ring.idx - 1)}

\* C22: new() posts the N receive buffers, slot i under token i, and after
\* any number of receive() calls that returned Ok all N slots are posted or
\* completed again: no descriptor of the receive queue is free, so the
\* device does not run out of buffers.
C22_SlotsArePostedAgain ==
    /\ d_pc # "panicked"
    /\ (d_pc = "ready" /\ \A k \in 1..Len(drv.got) : drv.got[k].ret.tag = "Ok") =>
          /\ \A i \in 0..(NET_QUEUE_SIZE - 1) :
                 descriptor_table[i].addr = RxDescriptor(i, 0).addr
          /\ (drv.got = <<>>) =>
                 \A i \in 0..(NET_QUEUE_SIZE - 1) : avail_ring.ring[i] = i
          /\ avail_desc_index = <<>>
          /\ SlotsInFlight = 0..(NET_QUEUE_SIZE - 1)

-----------------------------------------------------------------------------
(* add as the device sees it, store by store: SpecPublish *)

\* memory orderings of an atomic store
Relaxed == "Relaxed"
Release == "Release"

\* the ordering of the avail.idx store in AvailRing::push (queue.rs:314)
AvailRing_push_ordering == Release

DescriptorFields == << "addr", "len", "flags", "next" >>

\* the stores of descriptor number k (in the order add takes indices from the
\* free list) of an add that turned queue q into queue q2
RECURSIVE desc_stores(_, _, _, _)
desc_stores(q, q2, k, n) ==
    IF k > n THEN <<>>
    ELSE [f \in 1..4 |-> [k |-> "desc", i |-> q.avail_desc_index[k],
                          f |-> DescriptorFields[f],
                          v |-> q2.descriptor_table[q.avail_desc_index[k]]
                                    [DescriptorFields[f]]]]
         \o desc_stores(q, q2, k + 1, n)

\* the memory accesses of a successful add of n descriptors, in program
\* order (queue.rs:128-139, 312-314): the descriptors, the fence, the ring
\* slot, avail.idx
add_stores(q, q2, n) ==
    desc_stores(q, q2, 1, n)
    \o << [k |-> "fence", i |-> 0, f |-> "", v |-> 0],
          [k |-> "ring", i |-> q.avail_ring.idx % SIZE_of(q.avail_ring.ring),
           f |-> "", v |-> q2.avail_ring.ring[q.avail_ring.idx
                                               % SIZE_of(q.avail_ring.ring)]],
          [k |-> "idx", i |-> 0, f |-> AvailRing_push_ordering,
           v |-> q2.avail_ring.idx] >>

\* memory m after store s has reached it
apply_store(m, s) ==
    CASE s.k = "desc" -> [m EXCEPT !.table[s.i][s.f] = s.v]
      [] s.k = "ring" -> [m EXCEPT !.ring[s.i] = s.v]
      [] s.k = "idx" -> [m EXCEPT !.idx = s.v]

InitPublish ==
    /\ IsQueue(FreshQueue(GPU_QUEUE_SIZE))
    /\ live = {} /\ held = {} /\ adds_done = 0
    /\ last_call = [op |-> "new", arg |-> 0, ret |-> Ok(0), want |-> {}]
    /\ IdleWait /\ IdleMmio /\ IdleNew
    /\ drv = [kind |-> "memory",
              seen |-> [table |-> descriptor_table, ring |-> avail_ring.ring,
                        idx |-> avail_ring.idx],
              todo |-> <<>>, pending |-> {}]
    /\ d_pc = "idle"
    /\ d_ret = [tag |-> "none", val |-> 0]

\* add(data) is called: the driver's own view is that of the finished call;
\* its stores are still to be made
PublishAdd(data) ==
    /\ d_pc = "idle"
    /\ adds_done < MaxCalls
    /\ LET r == add(Q, data)
       IN /\ d_ret' = r.ret
          /\ adds_done' = adds_done + 1
          /\ IF r.ret.tag # "Ok"
             THEN UNCHANGED <<qvars, live, drv, d_pc>>
             ELSE /\ SetQueue(r.q)
                  /\ live' = live \cup
                        {[pos |-> avail_ring.idx, head |-> r.ret.val,
                          idxs |-> Range(SubSeq(avail_desc_index, 1, Len(data))),
                          upos |-> -1, len |-> 0]}
                  /\ drv' = [drv EXCEPT !.todo = add_stores(Q, r.q, Len(data))]
                  /\ d_pc' = "storing"
    /\ UNCHANGED <<held, last_call, wvars, mvars, nvars>>

\* the next access of add is made. A plain or Relaxed store may reach memory
\* at any later time; the fence and a Release store come only after every
\* earlier store has reached memory
PublishStore ==
    /\ d_pc = "storing"
    /\ LET s == Head(drv.todo)
           ordered == s.k = "fence" \/ (s.k = "idx" /\ s.f = Release)
       IN /\ ordered => drv.pending = {}
          /\ drv' = [drv EXCEPT
                 !.todo = Tail(@),
                 !.pending = IF ordered THEN @ ELSE @ \cup {s},
                 !.seen = IF s.k = "idx" /\ ordered THEN apply_store(@, s) ELSE @]
          /\ d_pc' = IF Len(drv.todo) = 1 THEN "idle" ELSE "storing"
    /\ UNCHANGED <<qvars, gvars, wvars, mvars, nvars, d_ret>>

\* a store that was made reaches the memory the device reads
PublishDrain ==
    /\ \E s \in drv.pending :
          drv' = [drv EXCEPT !.pending = @ \ {s}, !.seen = apply_store(@, s)]
    /\ UNCHANGED <<qvars, gvars, wvars, mvars, nvars, d_pc, d_ret>>

NextPublish ==
    \/ \E data \in {ConsoleSendChain, ConsoleRecvChain, GpuRequestChain} : PublishAdd(data)
    \/ PublishStore
    \/ PublishDrain

SpecPublish == InitPublish /\ [][NextPublish]_vars

\* C24: whenever the memory the device reads holds an avail.idx that counts
\* a chain, it also holds the chain's head in the ring slot of that chain and
\* every field of every descriptor of the chain, as add wrote them.
C24_PublishedChainIsComplete ==
    \A c \in live :
        (c.pos < drv.seen.idx) =>
            /\ drv.seen.ring[c.pos % GPU_QUEUE_SIZE] = c.head
            /\ \A i \in c.idxs : drv.seen.table[i] = descriptor_table[i]

\* the device sees the first chain published while stores of the second
\* add have been made and have not reached memory
C24_Witness ==
    /\ drv.seen.idx = 1
    /\ Cardinality(live) = 2
    /\ Cardinality(drv.pending) >= 4

-----------------------------------------------------------------------------
(* Transport::queue_set called with any arguments: SpecQueueSet *)

QueueSetSizes == {GPU_QUEUE_SIZE, NET_QUEUE_SIZE}
\* where the descriptors are: at the start of a page, or 16 bytes into it
QueueSetDescriptors == {3 * PAGE_SIZE, 3 * PAGE_SIZE + 16}
\* how far the caller's areas are from where the legacy layout has them
QueueSetSkews == {0, 2}

InitQueueSet ==
    /\ IsQueue(NoQueue)
    /\ live = {} /\ held = {} /\ adds_done = 0
    /\ IdleWait /\ IdleDrv
    /\ \E version \in {LEGACY_VERSION, MODERN_VERSION} :
          /\ transport = Ok(version)
          /\ regs = DeviceRegs(MAGIC, version, 3, NET_QUEUE_SIZE,
                               [i \in QueueIdxs |-> 0])
    /\ io_log = <<>>
    /\ t_pc = "queue_set"
    /\ new_size \in QueueSetSizes
    /\ new_queue_idx \in QueueIdxs
    /\ new_ret = "none"
    /\ \E descriptors \in QueueSetDescriptors, a \in QueueSetSkews,
          u \in QueueSetSkews, debug_assertions \in BOOLEAN :
          last_call = [op |-> "none",
                       arg |-> [descriptors |-> descriptors,
                                driver_area |-> descriptors
                                    + SIZE_OF_DESCRIPTOR * new_size + a,
                                device_area |-> descriptors
                                    + align_up(SIZE_OF_DESCRIPTOR * new_size
                                               + 2 * (new_size + 3)) + u,
                                debug_assertions |-> debug_assertions],
                       ret |-> Ok(0), want |-> {}]

\* transport.queue_set(new_queue_idx, new_size, descriptors, driver_area,
\* device_area)
QueueSet ==
    /\ t_pc = "queue_set"
    /\ LET a == last_call.arg
           r == queue_set_in(a.debug_assertions, transport.val,
                             [regs |-> regs, log |-> io_log], new_queue_idx,
                             new_size, a.descriptors, a.driver_area,
                             a.device_area)
       IN /\ regs' = r.io.regs
          /\ io_log' = r.io.log
          /\ new_ret' = r.ret.tag
          /\ last_call' = [last_call EXCEPT !.op = "queue_set", !.ret = r.ret]
    /\ t_pc' = "done"
    /\ UNCHANGED <<qvars, live, held, adds_done, wvars, dvars, transport,
                   new_size, new_queue_idx>>

NextQueueSet == QueueSet

SpecQueueSet == InitQueueSet /\ [][NextQueueSet]_vars

\* x as u32 and x >> 32 of a physical address
low_word(x) == x - ((x \div U16) \div U16) * U16 * U16
high_word(x) == (x \div U16) \div U16

\* C28: a modern queue_set makes exactly nine writes: queue_sel, queue_num,
\* the low then the high word of queue_desc, of queue_driver and of
\* queue_device, and last queue_ready = 1.
C28_ModernQueueSetOrder ==
    (t_pc = "done" /\ transport.val = MODERN_VERSION) =>
        LET a == last_call.arg
        IN /\ Len(io_log) = 9
           /\ IsWrite(io_log[1], "queue_sel", new_queue_idx)
           /\ IsWrite(io_log[2], "queue_num", new_size)
           /\ IsWrite(io_log[3], "queue_desc_low", low_word(a.descriptors))
           /\ IsWrite(io_log[4], "queue_desc_high", high_word(a.descriptors))
           /\ IsWrite(io_log[5], "queue_driver_low", low_word(a.driver_area))
           /\ IsWrite(io_log[6], "queue_driver_high", high_word(a.driver_area))
           /\ IsWrite(io_log[7], "queue_device_low", low_word(a.device_area))
           /\ IsWrite(io_log[8], "queue_device_high", high_word(a.device_area))
           /\ IsWrite(io_log[9], "queue_ready", 1)

\* a modern queue_set of a queue of 16 has been made
C28_Witness ==
    /\ t_pc = "done" /\ transport.val = MODERN_VERSION
    /\ new_size = NET_QUEUE_SIZE /\ new_queue_idx = 1
    /\ Len(io_log) = 9 /\ regs.queue_ready[1] = 1

\* C29: a legacy queue_set whose areas are not where the legacy layout has
\* them, or whose descriptors do not start a page, panics and writes nothing;
\* otherwise it writes queue_sel, queue_num = size, queue_align = PAGE_SIZE
\* and queue_pfn = descriptors / PAGE_SIZE, in that order.
C29_LegacyQueueSetChecks ==
    (t_pc = "done" /\ transport.val = LEGACY_VERSION) =>
        LET a == last_call.arg
            laid_out ==
                /\ a.driver_area = a.descriptors + 16 * new_size
                /\ a.device_area = a.descriptors
                       + align_up(16 * new_size + 2 * (new_size + 3))
                /\ a.descriptors % PAGE_SIZE = 0
        IN IF laid_out
           THEN /\ last_call.ret.tag = "Ok"
                /\ Len(io_log) = 4
                /\ IsWrite(io_log[1], "queue_sel", new_queue_idx)
                /\ IsWrite(io_log[2], "queue_num", new_size)
                /\ IsWrite(io_log[3], "queue_align", PAGE_SIZE)
                /\ IsWrite(io_log[4], "queue_pfn", a.descriptors \div PAGE_SIZE)
           ELSE /\ last_call.ret = Err("panic")
                /\ io_log = <<>>

-----------------------------------------------------------------------------
(* Notification suppression *)

\* C30: a block request that publishes a chain writes the index of its queue
\* to queue_notify, after the chain is published, when bit 0 of used.flags is
\* clear, and makes no register access when the bit is set.
C30_NotifyUnlessSuppressed ==
    [][(d_pc' = "wait" /\ d_pc # "wait") =>
        /\ avail_ring.idx' = wrapping_add(avail_ring.idx, 1)
        /\ IF HasFlag(used_ring.flags, NO_NOTIFY)
           THEN io_log' = io_log
           ELSE /\ Len(io_log') = Len(io_log) + 1
                /\ IsWrite(io_log'[Len(io_log')], "queue_notify", 0)
                /\ SubSeq(io_log', 1, Len(io_log)) = io_log]_vars

-----------------------------------------------------------------------------
(* The GPU driver's commands on the control queue: SpecGpu *)

\* Command (gpu/ty.rs:55-76)
GET_DISPLAY_INFO == 256
RESOURCE_CREATE_2D == 257
SET_SCANOUT == 259
RESOURCE_FLUSH == 260
TRANSFER_TO_HOST_2D == 261
RESOURCE_ATTACH_BACKING == 262
OK_NODATA == 4352
OK_DISPLAY_INFO == 4353
ERR_UNSPEC == 4608
\* Command::default() (gpu/ty.rs:81-85)
Command_default == 0

\* a check of the response type that accepts every response
check_type_any(hdr_type, expected) == Ok(0)

\* CtrlHeader::check_type (gpu/ty.rs:111-117)
check_type(hdr_type, expected) ==
    IF hdr_type = expected THEN Ok(0) ELSE Err("IoError")

\* the commands of setup_framebuffer (gpu/mod.rs:77-102) and of flush
\* (gpu/mod.rs:105-112), each with the response type its caller checks for
GpuCommands(op) ==
    IF op = "setup_framebuffer"
    THEN << [cmd |-> GET_DISPLAY_INFO, expected |-> OK_DISPLAY_INFO],
            [cmd |-> RESOURCE_CREATE_2D, expected |-> OK_NODATA],
            [cmd |-> RESOURCE_ATTACH_BACKING, expected |-> OK_NODATA],
            [cmd |-> SET_SCANOUT, expected |-> OK_NODATA] >>
    ELSE << [cmd |-> TRANSFER_TO_HOST_2D, expected |-> OK_NODATA],
            [cmd |-> RESOURCE_FLUSH, expected |-> OK_NODATA] >>

\* request returns its parameter rsp (gpu/mod.rs:154-169), a local that the
\* program never writes after it got its default value and that the device
\* writes through the address in the descriptor: the value returned is the
\* one in memory or, when the compiler keeps the value it knows, the default
rsp_read(in_memory) == {in_memory, Command_default}

\* the response types the device answers with
GpuResponses == {OK_NODATA, OK_DISPLAY_INFO, ERR_UNSPEC}

InitGpu ==
    /\ IsQueue(FreshQueue(GPU_QUEUE_SIZE))
    /\ live = {} /\ held = {} /\ adds_done = 0
    /\ last_call = [op |-> "new", arg |-> 0, ret |-> Ok(0), want |-> {}]
    /\ IdleWait /\ IdleMmio /\ IdleNew
    /\ drv = [kind |-> "gpu", rect |-> "None", frame_buffer_dma |-> "None",
              op |-> "none", step |-> 0, issued |-> <<>>, rsp |-> <<>>,
              calls |-> 0]
    /\ d_pc = "ready"
    /\ d_ret = [tag |-> "none", val |-> 0]

\* setup_framebuffer or flush is called. flush returns NotReady when rect is
\* None (gpu/mod.rs:106)
GpuCall(op) ==
    /\ d_pc \in {"ready", "returned"}
    /\ drv.calls < MaxCalls
    /\ IF op = "flush" /\ drv.rect = "None"
       THEN /\ d_ret' = Err("NotReady")
            /\ d_pc' = "returned"
            /\ drv' = [drv EXCEPT !.op = op, !.step = 0, !.issued = <<>>,
                                  !.rsp = <<>>, !.calls = @ + 1]
       ELSE /\ d_pc' = "request"
            /\ drv' = [drv EXCEPT !.op = op, !.step = 1, !.issued = <<>>,
                                  !.rsp = <<>>, !.calls = @ + 1]
            /\ UNCHANGED d_ret
    /\ UNCHANGED <<qvars, gvars, wvars, mvars, nvars>>

\* request up to the wait of add_notify_wait_pop (gpu/mod.rs:156-167,
\* queue.rs:82-86): the command of this step is published
GpuRequest ==
    /\ d_pc = "request"
    /\ LET r == add(Q, GpuRequestChain)
           io == [regs |-> regs, log |-> io_log]
       IN IF r.ret.tag # "Ok"
          THEN /\ d_ret' = r.ret /\ d_pc' = "returned"
               /\ UNCHANGED <<qvars, live, mvars, drv>>
          ELSE /\ SetQueue(r.q)
               /\ live' = {[pos |-> avail_ring.idx, head |-> r.ret.val,
                            idxs |-> Range(SubSeq(avail_desc_index, 1, 2)),
                            upos |-> -1, len |-> 0]}
               /\ LET io2 == IF should_notify(r.q) THEN notify(io, 0) ELSE io
                  IN regs' = io2.regs /\ io_log' = io2.log
               /\ drv' = [drv EXCEPT
                      !.issued = Append(@, GpuCommands(drv.op)[drv.step].cmd)]
               /\ d_pc' = "wait"
               /\ UNCHANGED d_ret
    /\ UNCHANGED <<held, adds_done, last_call, wvars, nvars>>

\* the device executes the command: it writes the response, whose header
\* type is hdr_type, then the used element and used.idx
GpuDevice(hdr_type) ==
    /\ d_pc = "wait"
    /\ \E c \in live :
          /\ c.upos = -1
          /\ SetQueue(device_use(Q, c.head, 24))
          /\ live' = {[c EXCEPT !.upos = used_ring.idx, !.len = 24]}
    /\ drv' = [drv EXCEPT !.rsp = Append(@, hdr_type)]
    /\ UNCHANGED <<held, adds_done, last_call, wvars, mvars, nvars, d_pc, d_ret>>

\* the rest of the step once the wait loop is left (queue.rs:88-91,
\* gpu/mod.rs:168 and the check_type of the caller), and what
\* setup_framebuffer and flush do with the result
GpuFinish ==
    /\ d_pc = "wait"
    /\ can_pop(Q, (CHOOSE h \in {c.head : c \in live} : TRUE))
    /\ LET token == (CHOOSE h \in {c.head : c \in live} : TRUE)
           r == pop_used(Q, token)
           step == GpuCommands(drv.op)[drv.step]
       IN /\ SetQueue(r.q)
          /\ IF r.ret.tag # "Ok"
             THEN d_ret' = r.ret /\ d_pc' = "returned" /\ UNCHANGED <<live, drv>>
             ELSE /\ live' = {}
                  /\ \E seen \in rsp_read(drv.rsp[Len(drv.rsp)]) :
                        LET c == check_type(seen, step.expected)
                        IN IF c.tag # "Ok"
                           THEN /\ d_ret' = c /\ d_pc' = "returned"
                                /\ UNCHANGED drv
                           ELSE /\ drv' = [drv EXCEPT
                                      !.rect = IF step.cmd = GET_DISPLAY_INFO
                                               THEN "Some" ELSE @,
                                      !.frame_buffer_dma =
                                          IF step.cmd = SET_SCANOUT
                                          THEN "Some" ELSE @,
                                      !.step = @ + 1]
                                /\ IF drv.step = Len(GpuCommands(drv.op))
                                   THEN d_ret' = Ok(0) /\ d_pc' = "returned"
                                   ELSE d_pc' = "request" /\ UNCHANGED d_ret
    /\ UNCHANGED <<held, adds_done, last_call, wvars, mvars, nvars>>

NextGpu ==
    \/ \E op \in {"setup_framebuffer", "flush"} : GpuCall(op)
    \/ GpuRequest
    \/ \E hdr_type \in GpuResponses : GpuDevice(hdr_type)
    \/ GpuFinish

SpecGpu == InitGpu /\ [][NextGpu]_vars

\* C34: the commands an operation has issued are the first ones of its
\* sequence, in order; and once the device has answered a command with a
\* type that is not the expected one, no later command is issued and the
\* operation returns IoError.
C34_GpuCommandSequence ==
    /\ Len(drv.issued) <= Len(GpuCommands(drv.op))
    /\ \A k \in 1..Len(drv.issued) : drv.issued[k] = GpuCommands(drv.op)[k].cmd
    /\ \A k \in 1..Len(drv.rsp) :
          drv.rsp[k] # GpuCommands(drv.op)[k].expected =>
              /\ Len(drv.issued) = k
              /\ d_pc \in {"wait", "returned"}
              /\ d_pc = "returned" => d_ret = Err("IoError")

\* setup_framebuffer has returned IoError after the device refused its third
\* command, RESOURCE_ATTACH_BACKING
C34_Witness ==
    /\ drv.op = "setup_framebuffer" /\ d_pc = "returned"
    /\ d_ret = Err("IoError")
    /\ drv.issued = << GET_DISPLAY_INFO, RESOURCE_CREATE_2D, RESOURCE_ATTACH_BACKING >>
    /\ drv.rsp = << OK_DISPLAY_INFO, OK_NODATA, ERR_UNSPEC >>

\* C40: flush publishes a command only after a setup_framebuffer has
\* succeeded (which is when frame_buffer_dma is set); otherwise it returns
\* NotReady and publishes nothing.
C40_FlushNeedsFramebuffer ==
    (drv.op = "flush" /\ drv.frame_buffer_dma = "None") =>
        /\ drv.issued = <<>>
        /\ d_pc = "returned" /\ d_ret = Err("NotReady")

-----------------------------------------------------------------------------
(* Notifications during construction *)

\* C38: in the accesses of a constructor every write of queue_notify comes
\* after a write of status that has DRIVER_OK set.
C38_NoNotifyBeforeDriverOk ==
    \A i \in Positions(io_log, "write", "queue_notify") :
        \E j \in Positions(io_log, "write", "status") :
            j < i /\ HasFlag(io_log[j].val, DRIVER_OK)

\* ---------------------------------------------------------------------------
\* The raw network driver under interrupts (qemu/src/new_test.rs,
\* qemu/src/trap/ext_interrupt.rs): the main loop of virtio_net posts one
\* receive buffer and waits for PACKAGE_IN; the external interrupt handler
\* runs VirtIONetRaw::handle_irq.  One hart: the handler runs to its end (or
\* spins) before the interrupted code continues.
\* ---------------------------------------------------------------------------

\* InterruptStatus (net/ty.rs:85-88)
USED_RING_UPDATE == 1
CONFIGURATION_CHANGE == 2

\* the device's side of InterruptACK: the acknowledged bits are cleared
device_ack(r, val) ==
    [r EXCEPT !.interrupt_ack = val,
              !.interrupt_status = SumBits({x \in {USED_RING_UPDATE, CONFIGURATION_CHANGE} :
                                               HasFlag(@, x) /\ ~HasFlag(val, x)})]

\* MmioTransport::ack_interrupt (mmio.rs:432-439)
ack_interrupt(io) ==
    LET status == io.regs.interrupt_status
        io1 == [io EXCEPT !.log = Append(@, [op |-> "read", reg |-> "interrupt_status",
                                             val |-> status])]
    IN IF status = 0 THEN [io |-> io1, ret |-> Ok(FALSE)]
       ELSE [io |-> [regs |-> device_ack(io1.regs, status),
                     log |-> Append(io1.log, [op |-> "write", reg |-> "interrupt_ack",
                                              val |-> status])],
             ret |-> Ok(TRUE)]

\* crate::mutex::Mutex::lock on one hart: the lock is taken when it is free;
\* a handler that needs a lock the interrupted code holds never gets it
Mutex_free(locks, name) == name \notin locks

\* the first token of NET_BUF (a BTreeMap, iterated in key order) the device
\* has completed, or None
first_completed(q, net_buf) ==
    LET ready == {t \in net_buf : can_pop(q, t)}
    IN IF ready = {} THEN None
       ELSE CHOOSE t \in ready : \A u \in ready : t <= u

\* VirtIONetRaw::handle_irq (new_test.rs:304-321)
handle_irq(q, io, d) ==
    Bind(first_completed(q, d.NET_BUF), LAMBDA token :
    IF token = None THEN [q |-> q, io |-> io, d |-> d, ret |-> Ok(0)]
    ELSE Bind(receive_complete(q, token), LAMBDA r :
         IF r.ret.tag # "Ok"
         THEN [q |-> r.q, io |-> io, d |-> d, ret |-> [tag |-> "panic", val |-> 0]]
         ELSE [q |-> r.q,
               io |-> ack_interrupt(io).io,
               d |-> [d EXCEPT !.PACKAGE_IN = TRUE,
                               !.NET_RES = @ \cup {[token |-> token,
                                                    hdr_len |-> r.hdr_len,
                                                    pkt_len |-> r.ret.val]}],
               ret |-> Ok(0)]))

IrqPacketLens == {10, 74}

InitIrq ==
    /\ IsQueue(FreshQueue(NET_QUEUE_SIZE))
    /\ live = {} /\ held = {} /\ adds_done = 0
    /\ last_call = [op |-> "none", arg |-> 0, ret |-> Ok(0), want |-> {}]
    /\ IdleWait /\ IdleNew
    /\ regs = [interrupt_status |-> 0, interrupt_ack |-> 0]
              @@ DeviceRegs(MAGIC, MODERN_VERSION, 1, NET_QUEUE_SIZE, [i \in QueueIdxs |-> 0])
    /\ io_log = <<>>
    /\ \E masks \in BOOLEAN :
          drv = [kind |-> "net_raw", masks |-> masks, locks |-> {},
                 NET_BUF |-> {}, NET_RES |-> {}, PACKAGE_IN |-> FALSE,
                 token |-> None, tx |-> "idle", irqs |-> 0]
    /\ d_pc = "start"
    /\ d_ret = [tag |-> "none", val |-> 0]

\* one step of virtio_net (new_test.rs:228-270); a lock is held from its
\* lock() to the end of the statement or block that took it
virtio_net ==
    /\ d_pc \notin {"irq_spin", "panicked", "finished"}
    /\ \/ /\ d_pc = "start"                                   \* 236 NET_BUF.lock()
          /\ drv' = [drv EXCEPT !.locks = @ \cup {"NET_BUF"}]
          /\ d_pc' = "lock_net"
          /\ UNCHANGED <<qvars, mvars>>
       \/ /\ d_pc = "lock_net"                                \* 237 net.lock()
          /\ drv' = [drv EXCEPT !.locks = @ \cup {"NET"}]
          /\ d_pc' = "receive_begin"
          /\ UNCHANGED <<qvars, mvars>>
       \/ /\ d_pc = "receive_begin"                           \* 238-240
          /\ LET r == receive_begin(Q, [regs |-> regs, log |-> io_log], 0, 2048)
             IN /\ SetQueue(r.q)
                /\ regs' = r.io.regs /\ io_log' = r.io.log
                /\ drv' = [drv EXCEPT !.token = r.ret.val, !.locks = @ \ {"NET"}]
                /\ d_pc' = IF r.ret.tag = "Ok" THEN "insert" ELSE "panicked"
       \/ /\ d_pc = "insert"                                  \* 242-243
          /\ drv' = [drv EXCEPT !.NET_BUF = @ \cup {drv.token}, !.locks = @ \ {"NET_BUF"}]
          /\ d_pc' = "loop"
          /\ UNCHANGED <<qvars, mvars>>
       \/ /\ d_pc = "loop" /\ drv.PACKAGE_IN                  \* 245-246
          /\ drv' = [drv EXCEPT !.PACKAGE_IN = FALSE, !.locks = @ \cup {"NET_BUF"}]
          /\ d_pc' = "take_buf"
          /\ UNCHANGED <<qvars, mvars>>
       \/ /\ d_pc = "take_buf"                                \* 247
          /\ drv' = [drv EXCEPT !.NET_BUF = @ \ {drv.token},
                                !.locks = (@ \ {"NET_BUF"}) \cup {"NET_RES"}]
          /\ d_pc' = IF drv.token \in drv.NET_BUF THEN "take_res" ELSE "panicked"
          /\ UNCHANGED <<qvars, mvars>>
       \/ /\ d_pc = "take_res"                                \* 248
          /\ drv' = [drv EXCEPT !.NET_RES = {r \in @ : r.token # drv.token},
                                !.locks = (@ \ {"NET_RES"}) \cup {"NET"}]
          /\ d_pc' = IF \E r \in drv.NET_RES : r.token = drv.token
                     THEN "send" ELSE "panicked"
          /\ UNCHANGED <<qvars, mvars>>
       \/ /\ d_pc = "send" /\ drv.tx = "idle"                 \* 254 send publishes
          /\ drv' = [drv EXCEPT !.tx = "sent"]
          /\ d_pc' = "send"
          /\ UNCHANGED <<qvars, mvars>>
       \/ /\ d_pc = "send" /\ drv.tx = "done"                 \* 254 send returns
          /\ drv' = [drv EXCEPT !.locks = @ \ {"NET"}]
          /\ d_pc' = "finished"
          /\ UNCHANGED <<qvars, mvars>>
    /\ UNCHANGED <<gvars, wvars, nvars, d_ret>>

\* the device completes the posted receive buffer or the sent frame, or
\* reports a configuration change; each raises its interrupt bit
NetIrqDevice(what, len) ==
    /\ d_pc # "irq_spin"
    /\ \/ /\ what = "rx"
          /\ drv.token # None /\ avail_ring.idx > used_ring.idx
          /\ SetQueue(device_use(Q, drv.token, len))
          /\ regs' = [regs EXCEPT !.interrupt_status = BitOr(@, USED_RING_UPDATE)]
          /\ UNCHANGED drv
       \/ /\ what = "tx"
          /\ drv.tx = "sent"
          /\ drv' = [drv EXCEPT !.tx = "done"]
          /\ regs' = [regs EXCEPT !.interrupt_status = BitOr(@, USED_RING_UPDATE)]
          /\ UNCHANGED qvars
       \/ /\ what = "config"
          /\ ~HasFlag(regs.interrupt_status, CONFIGURATION_CHANGE)
          /\ regs' = [regs EXCEPT !.interrupt_status = BitOr(@, CONFIGURATION_CHANGE)]
          /\ UNCHANGED <<qvars, drv>>
    /\ UNCHANGED <<gvars, wvars, nvars, io_log, d_pc, d_ret>>

\* external_interrupt_handler (ext_interrupt.rs:37-50) dispatching to
\* handle_irq: taken while the device's interrupt is pending
external_interrupt_handler ==
    /\ regs.interrupt_status # 0
    /\ drv.irqs < MaxCalls
    /\ d_pc \notin {"irq_spin", "panicked"}
    /\ ~(drv.masks /\ drv.locks # {})
    /\ IF ~Mutex_free(drv.locks, "NET") \/ ~Mutex_free(drv.locks, "NET_BUF")
          \/ (first_completed(Q, drv.NET_BUF) # None /\ ~Mutex_free(drv.locks, "NET_RES"))
       THEN /\ d_pc' = "irq_spin"
            /\ UNCHANGED <<qvars, mvars, drv>>
       ELSE LET r == handle_irq(Q, [regs |-> regs, log |-> io_log], drv)
            IN /\ SetQueue(r.q)
               /\ regs' = r.io.regs /\ io_log' = r.io.log
               /\ drv' = [r.d EXCEPT !.irqs = @ + 1]
               /\ d_pc' = IF r.ret.tag = "panic" THEN "panicked" ELSE d_pc
    /\ UNCHANGED <<gvars, wvars, nvars, d_ret>>

NextIrq ==
    \/ virtio_net
    \/ \E what \in {"rx", "tx", "config"}, len \in IrqPacketLens : NetIrqDevice(what, len)
    \/ external_interrupt_handler

SpecIrq == InitIrq /\ [][NextIrq]_vars

\* C33: a run of the network interrupt handler acknowledges the interrupt and
\* records (header_len, packet_len) for every outstanding receive token the
\* device has completed
C33_HandlerAcksAndStores ==
    [][(drv'.irqs = drv.irqs + 1 /\ d_pc' # "panicked") =>
          /\ regs'.interrupt_status = 0
          /\ \A t \in drv.NET_BUF :
                can_pop(Q, t) => \E r \in drv'.NET_RES : r.token = t]_vars

\* C39: the interrupt handler never spins on a lock held by the code it
\* interrupted
C39_HandlerNeverSpins == d_pc # "irq_spin"

====
